---- MODULE Spec2Model ----
(***************************************************************************)
(* A model of the core algorithms of p4est (2D build, P4_TO_P8 undefined)  *)
(* in src/src/p4est_algorithms.c: region completion, subtree completion    *)
(* and 2:1 balance, border balance, overlap deduplication, tree            *)
(* maintenance and the partition reshuffle.                                *)
(*                                                                         *)
(* A quadrant is a record [x, y, level, ud]: integer coordinates at the    *)
(* resolution of P4EST_MAXLEVEL, the refinement level, and the payload     *)
(* slot p (a user-data handle, 0 for NULL, or a tag).                      *)
(***************************************************************************)
EXTENDS Integers, Sequences, FiniteSets, TLC

VARIABLES
    p4est,   \* rank -> the p4est_t of that process
    call,    \* the last API call that returned: name, arguments, results
    pc,      \* rank -> position of the process inside partition_given
    loc,     \* rank -> locals of partition_given on that process
    net      \* messages in flight: posted sends not yet received

vars == <<p4est, call, pc, loc, net>>

(***************************************************************************)
(* Sizes.  The refinement depth is a bound of the model; the dimension     *)
(* and the balance tables are those of the 2D build.                       *)
(***************************************************************************)
P4EST_MAXLEVEL == 4

P4EST_QMAXLEVEL == P4EST_MAXLEVEL - 1

P4EST_DIM == 2

P4EST_CHILDREN == 4

P4EST_FACES == 4

P4EST_ROOT_LEN == 2 ^ P4EST_MAXLEVEL

P4EST_QUADRANT_LEN(l) == 2 ^ (P4EST_MAXLEVEL - l)

SC_MIN(a, b) == IF a < b THEN a ELSE b

SC_MAX(a, b) == IF a > b THEN a ELSE b

NULL == 0

\* A non-NULL init_fn: the callback of the user.
UserInit == 1

Quad(x, y, l) == [x |-> x, y |-> y, level |-> l, ud |-> NULL]

SetUd(q, u) == [q EXCEPT !.ud = u]

Levels == 0 .. P4EST_MAXLEVEL

\* The quadrant q without its payload pointer.
Bare(q) == Quad(q.x, q.y, q.level)

\* The entry of global_first_position: a tree and the coordinates of a
\* quadrant of level P4EST_QMAXLEVEL.
Position(t, x, y) == [which_tree |-> t, x |-> x, y |-> y,
                      level |-> P4EST_QMAXLEVEL]

(***************************************************************************)
(* Quadrant primitives (p4est_bits.c is not part of the sources at hand;   *)
(* they follow section 4.1 of the specification).                          *)
(***************************************************************************)

\* The unsigned image of an extended coordinate: negative coordinates wrap
\* above all others, as two's complement integers compared bit by bit do.
CoordBits == P4EST_MAXLEVEL + 2

Unsigned(c) == IF c >= 0 THEN c ELSE c + 2 ^ CoordBits

RECURSIVE Interleave(_, _, _)
Interleave(ux, uy, n) ==
    IF n = 0 THEN 0
    ELSE (ux % 2) + 2 * (uy % 2) + 4 * Interleave(ux \div 2, uy \div 2, n - 1)

\* Morton index of the coordinates at the finest resolution.
ExtCoords == (-P4EST_ROOT_LEN) .. (2 * P4EST_ROOT_LEN - 1)

MortonTable ==
    [x \in ExtCoords |->
       [y \in ExtCoords |-> Interleave(Unsigned(x), Unsigned(y), CoordBits)]]

MortonKey(q) == MortonTable[q.x][q.y]

\* p4est_quadrant_compare: negative, zero or positive.
p4est_quadrant_compare(a, b) ==
    IF a.x = b.x /\ a.y = b.y THEN a.level - b.level
    ELSE MortonKey(a) - MortonKey(b)

p4est_quadrant_is_equal(a, b) ==
    a.x = b.x /\ a.y = b.y /\ a.level = b.level

\* Round a coordinate down to a multiple of the length of level l.
Truncate(c, l) == c - (c % P4EST_QUADRANT_LEN(l))

p4est_quadrant_is_ancestor(q, r) ==
    /\ q.level < r.level
    /\ Truncate(r.x, q.level) = q.x
    /\ Truncate(r.y, q.level) = q.y

p4est_quadrant_is_inside_root(q) ==
    /\ q.x >= 0 /\ q.x < P4EST_ROOT_LEN
    /\ q.y >= 0 /\ q.y < P4EST_ROOT_LEN

p4est_quadrant_is_inside_3x3(q) ==
    /\ q.x >= -P4EST_ROOT_LEN /\ q.x <= 2 * P4EST_ROOT_LEN - 1
    /\ q.y >= -P4EST_ROOT_LEN /\ q.y <= 2 * P4EST_ROOT_LEN - 1

p4est_quadrant_is_valid(q) ==
    /\ q.level >= 0 /\ q.level <= P4EST_QMAXLEVEL
    /\ q.x % P4EST_QUADRANT_LEN(q.level) = 0
    /\ q.y % P4EST_QUADRANT_LEN(q.level) = 0
    /\ p4est_quadrant_is_inside_root(q)

p4est_quadrant_child_id(q) ==
    IF q.level = 0 THEN 0
    ELSE ((q.x \div P4EST_QUADRANT_LEN(q.level)) % 2)
         + 2 * ((q.y \div P4EST_QUADRANT_LEN(q.level)) % 2)

p4est_quadrant_ancestor_id(q, l) ==
    IF l = 0 THEN 0
    ELSE ((q.x \div P4EST_QUADRANT_LEN(l)) % 2)
         + 2 * ((q.y \div P4EST_QUADRANT_LEN(l)) % 2)

p4est_quadrant_parent(q) ==
    [q EXCEPT !.x = Truncate(q.x, q.level - 1),
              !.y = Truncate(q.y, q.level - 1),
              !.level = q.level - 1]

p4est_quadrant_sibling(q, i) ==
    LET h == P4EST_QUADRANT_LEN(q.level)
        px == Truncate(q.x, q.level - 1)
        py == Truncate(q.y, q.level - 1)
    IN [q EXCEPT !.x = px + (i % 2) * h, !.y = py + ((i \div 2) % 2) * h]

\* The four children of q in child-id order (p4est_quadrant_children).
p4est_quadrant_children(q) ==
    LET h == P4EST_QUADRANT_LEN(q.level + 1)
    IN [i \in 1 .. P4EST_CHILDREN |->
          Quad(q.x + ((i - 1) % 2) * h, q.y + ((i - 1) \div 2) * h, q.level + 1)]

p4est_quadrant_first_descendant(q, l) == [q EXCEPT !.level = l]

p4est_quadrant_last_descendant(q, l) ==
    LET shift == P4EST_QUADRANT_LEN(q.level) - P4EST_QUADRANT_LEN(l)
    IN [q EXCEPT !.x = q.x + shift, !.y = q.y + shift, !.level = l]

\* Morton index of the ancestor of q at level l among the quadrants of
\* that level (p4est_quadrant_linear_id).
p4est_quadrant_linear_id(q, l) ==
    Interleave(q.x \div P4EST_QUADRANT_LEN(l), q.y \div P4EST_QUADRANT_LEN(l),
               P4EST_MAXLEVEL)

p4est_quadrant_is_next(q, r) ==
    LET mask == P4EST_QUADRANT_LEN(r.level) - P4EST_QUADRANT_LEN(q.level)
        minlevel == IF q.level > r.level THEN r.level ELSE q.level
    IN IF q.level > r.level
          /\ ~ (/\ (q.x % P4EST_QUADRANT_LEN(r.level)) = mask
                /\ (q.y % P4EST_QUADRANT_LEN(r.level)) = mask)
       THEN FALSE
       ELSE p4est_quadrant_linear_id(q, minlevel) + 1
              = p4est_quadrant_linear_id(r, minlevel)

\* The deepest level at which a and b have the same ancestor.
RECURSIVE CommonLevel(_, _, _)
CommonLevel(a, b, l) ==
    IF l = 0 \/ (Truncate(a.x, l) = Truncate(b.x, l)
                 /\ Truncate(a.y, l) = Truncate(b.y, l))
    THEN l
    ELSE CommonLevel(a, b, l - 1)

p4est_nearest_common_ancestor(a, b) ==
    LET l == CommonLevel(a, b, SC_MIN(a.level, b.level))
    IN Quad(Truncate(a.x, l), Truncate(a.y, l), l)

\* Four quadrants are the children of one parent, in child-id order.
p4est_quadrant_is_familypv(f) ==
    /\ f[1].level > 0
    /\ \A i \in 1 .. P4EST_CHILDREN :
          /\ f[i].level = f[1].level
          /\ p4est_quadrant_is_equal(f[i], p4est_quadrant_sibling(f[1], i - 1))
    /\ p4est_quadrant_child_id(f[1]) = 0

\* p4est_quadrant_disjoint: 0 when one contains the other, else Morton order.
p4est_quadrant_disjoint(a, b) ==
    IF p4est_quadrant_is_equal(a, b) \/ p4est_quadrant_is_ancestor(a, b)
       \/ p4est_quadrant_is_ancestor(b, a)
    THEN 0
    ELSE p4est_quadrant_compare(a, b)

(***************************************************************************)
(* Arrays (libsc): sorting by a three-way comparison and binary search.    *)
(* The comparison is named by a string, as the C code passes a function.   *)
(***************************************************************************)

\* p4est_quadrant_compare_piggy: by p.which_tree first, then Morton order.
p4est_quadrant_compare_piggy(a, b) ==
    IF a.ud # b.ud THEN a.ud - b.ud ELSE p4est_quadrant_compare(a, b)

p4est_quadrant_is_equal_piggy(a, b) ==
    a.ud = b.ud /\ p4est_quadrant_is_equal(a, b)

Cmp(fn, a, b) ==
    CASE fn = "compare" -> p4est_quadrant_compare(a, b)
      [] fn = "compare_piggy" -> p4est_quadrant_compare_piggy(a, b)
      [] fn = "disjoint" -> p4est_quadrant_disjoint(a, b)

\* The value of the one element of a singleton set: names a value once.
Once(S) == CHOOSE r \in S : TRUE

Range(s) == {s[i] : i \in DOMAIN s}

\* The place of e in the sorted array acc: behind every element that does
\* not compare greater.
InsertAt(acc, e, fn) ==
    LET n == Len(acc)
        ub[lo \in 0 .. n, hi \in 0 .. n] ==
           IF lo >= hi THEN lo
           ELSE LET mid == (lo + hi) \div 2
                IN IF Cmp(fn, acc[mid + 1], e) <= 0 THEN ub[mid + 1, hi]
                   ELSE ub[lo, mid]
    IN ub[0, n]

InsertSorted(acc, e, fn) ==
    LET k == InsertAt(acc, e, fn)
    IN SubSeq(acc, 1, k) \o <<e>> \o SubSeq(acc, k + 1, Len(acc))

\* sc_array_sort: the array in non-decreasing order of the comparison.
sc_array_sort(s, fn) ==
    LET sorted[i \in 0 .. Len(s)] ==
           IF i = 0 THEN <<>>
           ELSE Once({InsertSorted(acc, s[i], fn) : acc \in {sorted[i - 1]}})
    IN sorted[Len(s)]

\* sc_array_bsearch: the index (from 1) of an element comparing equal to
\* key, or -1; the bisection of the C library's bsearch.
sc_array_bsearch(s, key, fn) ==
    LET n == Len(s)
        Bisect[lo \in 0 .. n, hi \in 0 .. n] ==
           IF lo >= hi THEN -1
           ELSE LET mid == (lo + hi) \div 2
                    c == Cmp(fn, key, s[mid + 1])
                IN IF c < 0 THEN Bisect[lo, mid]
                   ELSE IF c > 0 THEN Bisect[mid + 1, hi]
                   ELSE mid + 1
    IN Bisect[0, n]

\* The content of an array element nobody wrote yet.
UninitialisedQuadrant == [x |-> -1, y |-> -1, level |-> -1, ud |-> NULL]

\* sc_array_resize: cut, or grow by elements that are not initialised.
sc_array_resize(s, n) ==
    IF n <= Len(s) THEN SubSeq(s, 1, n)
    ELSE s \o [i \in 1 .. n - Len(s) |-> UninitialisedQuadrant]

(***************************************************************************)
(* Trees and the pools of a forest.                                        *)
(*                                                                         *)
(* The engines below run on a work record: the leaf array of the tree      *)
(* with its per-level counters and maxlevel, the forest's user-data pool   *)
(* (handle -> payload bytes, live slots only), the number of live          *)
(* elements of the forest's quadrant pool, and the log of init_fn calls.   *)
(***************************************************************************)
\* The counters of a tree without leaves: zero for the levels a quadrant
\* can have, -1 above them.
ZeroLevels == [l \in Levels |-> IF l <= P4EST_QMAXLEVEL THEN 0 ELSE -1]

EmptyTree ==
    [quadrants |-> <<>>, quadrants_per_level |-> ZeroLevels, maxlevel |-> 0,
     first_desc |-> Quad(0, 0, 0), last_desc |-> Quad(0, 0, 0),
     quadrants_offset |-> 0]

SetMin(S) == CHOOSE m \in S : \A k \in S : m <= k

\* sc_mempool_alloc on the user-data pool: a slot that is not live.
FreshHandle(udp) ==
    SetMin({h \in 1 .. (Cardinality(DOMAIN udp) + 1) : h \notin DOMAIN udp})

Restrict(f, S) == [k \in S |-> f[k]]

\* What the model's init_fn writes into the payload of a fresh leaf.
InitValue(which_tree, q) == <<which_tree, q.x, q.y, q.level>>

\* The content of a payload slot nobody wrote yet.
Uninitialised == <<>>

Work(pe, which_tree) ==
    LET tree == pe.trees[which_tree]
    IN [quadrants |-> tree.quadrants,
        quadrants_per_level |-> tree.quadrants_per_level,
        maxlevel |-> tree.maxlevel,
        data_size |-> pe.data_size,
        udp |-> pe.user_data_pool,
        qpool |-> pe.quadrant_pool,
        inits |-> <<>>,
        freed |-> <<>>,
        last |-> Quad(0, 0, 0),
        ret |-> 0,
        num_nonowned |-> 0]

\* Write the work record back into the forest.
Store(pe, which_tree, w) ==
    [pe EXCEPT !.trees[which_tree].quadrants = w.quadrants,
               !.trees[which_tree].quadrants_per_level = w.quadrants_per_level,
               !.trees[which_tree].maxlevel = w.maxlevel,
               !.user_data_pool = w.udp,
               !.quadrant_pool = w.qpool]

\* The allocation of the payload with init_fn called for a quadrant that
\* is not the first child of its parent only.
p4est_quadrant_init_data_Later(w, which_tree, quad, init_fn) ==
    LET h == IF w.data_size > 0 THEN FreshHandle(w.udp) ELSE NULL
        called == /\ init_fn # NULL /\ p4est_quadrant_is_inside_root(quad)
                  /\ p4est_quadrant_child_id(quad) # 0
        bytes == IF called THEN InitValue(which_tree, quad) ELSE Uninitialised
    IN [w EXCEPT
          !.udp = IF w.data_size > 0 THEN (h :> bytes) @@ @ ELSE @,
          !.inits = IF called
                    THEN Append(@, <<which_tree, quad.x, quad.y, quad.level>>)
                    ELSE @,
          !.last = SetUd(quad, h)]

\* p4est_quadrant_init_data: allocate the payload, call init_fn on a
\* quadrant inside the root.  The initialised quadrant is left in w.last.
p4est_quadrant_init_data(w, which_tree, quad, init_fn) ==
    LET h == IF w.data_size > 0 THEN FreshHandle(w.udp) ELSE NULL
        called == init_fn # NULL /\ p4est_quadrant_is_inside_root(quad)
        bytes == IF called THEN InitValue(which_tree, quad) ELSE Uninitialised
    IN [w EXCEPT
          !.udp = IF w.data_size > 0 THEN (h :> bytes) @@ @ ELSE @,
          !.inits = IF called
                    THEN Append(@, <<which_tree, quad.x, quad.y, quad.level>>)
                    ELSE @,
          !.last = SetUd(quad, h)]

\* The release that leaves the payload in the pool.
p4est_quadrant_free_data_Leak(w, quad) ==
    [w EXCEPT !.freed = IF w.data_size > 0 THEN Append(@, quad.ud) ELSE @]

\* p4est_quadrant_free_data: release the payload of quad.
p4est_quadrant_free_data(w, quad) ==
    [w EXCEPT
       !.udp = IF w.data_size > 0
               THEN Restrict(@, DOMAIN @ \ {quad.ud})
               ELSE @,
       !.freed = IF w.data_size > 0 THEN Append(@, quad.ud) ELSE @]

(***************************************************************************)
(* p4est_complete_region                                                   *)
(***************************************************************************)

\* R <- R + q: push, initialise the payload, count the level.
RegionPush(w, which_tree, q, init_fn) ==
    Once({[w1 EXCEPT !.quadrants = Append(@, w1.last),
                     !.maxlevel = SC_MAX(q.level, @),
                     !.quadrants_per_level[q.level] = @ + 1] :
            w1 \in {p4est_quadrant_init_data(
                      w, which_tree, Quad(q.x, q.y, q.level), init_fn)}})

\* The work list that puts the children of a quadrant between a and b into
\* the tree in its place.
RECURSIVE RegionLoop_Refined(_, _, _, _, _, _)
RegionLoop_Refined(w, W, a, b, which_tree, init_fn) ==
    IF W = <<>> THEN w
    ELSE LET q == Head(W)
         IN IF /\ p4est_quadrant_compare(a, q) < 0
               /\ p4est_quadrant_compare(q, b) < 0
               /\ ~ p4est_quadrant_is_ancestor(q, b)
               /\ q.level = P4EST_QMAXLEVEL
            THEN RegionLoop_Refined(
                   [RegionPush(w, which_tree, q, init_fn)
                      EXCEPT !.qpool = @ - 1],
                   Tail(W), a, b, which_tree, init_fn)
            ELSE IF \/ p4est_quadrant_is_ancestor(q, a)
                    \/ p4est_quadrant_is_ancestor(q, b)
                    \/ /\ p4est_quadrant_compare(a, q) < 0
                       /\ p4est_quadrant_compare(q, b) < 0
            THEN RegionLoop_Refined(
                   [w EXCEPT !.qpool = @ + P4EST_CHILDREN - 1],
                   p4est_quadrant_children(q) \o Tail(W),
                   a, b, which_tree, init_fn)
            ELSE RegionLoop_Refined([w EXCEPT !.qpool = @ - 1],
                            Tail(W), a, b, which_tree, init_fn)

\* The work list W: pop the head; emit it, replace it by its children, or
\* drop it.  Every popped quadrant goes back to the quadrant pool.
RECURSIVE RegionLoop(_, _, _, _, _, _)
RegionLoop(w, W, a, b, which_tree, init_fn) ==
    IF W = <<>> THEN w
    ELSE LET q == Head(W)
         IN IF /\ p4est_quadrant_compare(a, q) < 0
               /\ p4est_quadrant_compare(q, b) < 0
               /\ ~ p4est_quadrant_is_ancestor(q, b)
            THEN RegionLoop(
                   [RegionPush(w, which_tree, q, init_fn)
                      EXCEPT !.qpool = @ - 1],
                   Tail(W), a, b, which_tree, init_fn)
            ELSE IF \/ p4est_quadrant_is_ancestor(q, a)
                    \/ p4est_quadrant_is_ancestor(q, b)
            THEN RegionLoop(
                   [w EXCEPT !.qpool = @ + P4EST_CHILDREN - 1],
                   p4est_quadrant_children(q) \o Tail(W),
                   a, b, which_tree, init_fn)
            ELSE RegionLoop([w EXCEPT !.qpool = @ - 1],
                            Tail(W), a, b, which_tree, init_fn)

\* The completion that does not append q2.
p4est_complete_region_NoLast(pe, q1, include_q1, q2, include_q2, which_tree, init_fn) ==
    LET w0 == [Work(pe, which_tree) EXCEPT !.maxlevel = 0]
        comp == p4est_quadrant_compare(q1, q2)
        w1 == IF include_q1 THEN RegionPush(w0, which_tree, q1, init_fn)
              ELSE w0
        Afinest == p4est_nearest_common_ancestor(q1, q2)
        w2 == IF comp < 0
              THEN RegionLoop([w1 EXCEPT !.qpool = @ + P4EST_CHILDREN],
                              p4est_quadrant_children(Afinest),
                              q1, q2, which_tree, init_fn)
              ELSE w1
    IN w2

p4est_complete_region(pe, q1, include_q1, q2, include_q2, which_tree, init_fn) ==
    LET w0 == [Work(pe, which_tree) EXCEPT !.maxlevel = 0]
        comp == p4est_quadrant_compare(q1, q2)
        w1 == IF include_q1 THEN RegionPush(w0, which_tree, q1, init_fn)
              ELSE w0
        Afinest == p4est_nearest_common_ancestor(q1, q2)
        w2 == IF comp < 0
              THEN RegionLoop([w1 EXCEPT !.qpool = @ + P4EST_CHILDREN],
                              p4est_quadrant_children(Afinest),
                              q1, q2, which_tree, init_fn)
              ELSE w1
        w3 == IF comp < 0 /\ include_q2
              THEN RegionPush(w2, which_tree, q2, init_fn)
              ELSE w2
    IN w3

(***************************************************************************)
(* p4est_tree_uniqify_overlap                                              *)
(*                                                                         *)
(* The entries of out and skip carry their tree in p.which_tree, the slot  *)
(* ud of the record.                                                       *)
(***************************************************************************)

\* One turn of the read loop with the #if 0 branch compiled in: an entry
\* whose successor is a descendant in the same tree is dropped as well.
UniqifyStep_DropAncestor(st, skip, outcount) ==
    Once({IF st.iz < outcount - 1
             /\ p4est_quadrant_is_equal_piggy(inq, st.out[st.iz + 2])
          THEN [st EXCEPT !.dupcount = @ + 1, !.iz = @ + 1]
          ELSE IF st.iz < outcount - 1
                  /\ inq.ud = st.out[st.iz + 2].ud
                  /\ p4est_quadrant_is_ancestor(inq, st.out[st.iz + 2])
          THEN [st EXCEPT !.olcount = @ + 1, !.iz = @ + 1]
          ELSE IF sc_array_bsearch(skip, inq, "compare_piggy") # -1
          THEN [st EXCEPT !.skipcount = @ + 1, !.iz = @ + 1]
          ELSE [st EXCEPT !.out[st.jz + 1] = IF st.iz > st.jz THEN inq ELSE @,
                          !.iz = @ + 1, !.jz = @ + 1] :
          inq \in {st.out[st.iz + 1]}})

\* One turn of the read loop: inq is the entry at the read counter iz, tq
\* the one behind it; a duplicate of its successor and an entry found in
\* skip are passed over, any other entry is written at the write counter.
UniqifyStep(st, skip, outcount) ==
    Once({IF st.iz < outcount - 1
             /\ p4est_quadrant_is_equal_piggy(inq, st.out[st.iz + 2])
          THEN [st EXCEPT !.dupcount = @ + 1, !.iz = @ + 1]
          ELSE IF sc_array_bsearch(skip, inq, "compare_piggy") # -1
          THEN [st EXCEPT !.skipcount = @ + 1, !.iz = @ + 1]
          ELSE [st EXCEPT !.out[st.jz + 1] = IF st.iz > st.jz THEN inq ELSE @,
                          !.iz = @ + 1, !.jz = @ + 1] :
          inq \in {st.out[st.iz + 1]}})

\* Sort out, remove the duplicates and the entries of skip, cut the array.
p4est_tree_uniqify_overlap(skip, out) ==
    LET outcount == Len(out)
        loop[k \in 0 .. outcount] ==
           IF k = 0
           THEN [out |-> sc_array_sort(out, "compare_piggy"),
                 iz |-> 0, jz |-> 0,
                 dupcount |-> 0, skipcount |-> 0, olcount |-> 0]
           ELSE Once({UniqifyStep(st, skip, outcount) : st \in {loop[k - 1]}})
    IN IF outcount = 0 THEN out
       ELSE Once({sc_array_resize(st.out, st.jz) : st \in {loop[outcount]}})

(***************************************************************************)
(* p4est_tree_remove_nonowned and p4est_linearize_tree                     *)
(***************************************************************************)

\* p4est_comm_tree_info: whether the process owns the start and the end of
\* the tree, and the partition markers of the process and of its successor.
p4est_comm_tree_info(pe, which_tree) ==
    LET first_pos == pe.global_first_position[pe.mpirank]
        next_pos == pe.global_first_position[pe.mpirank + 1]
    IN [full_tree0 |-> \/ which_tree > pe.first_local_tree
                       \/ (first_pos.x = 0 /\ first_pos.y = 0),
        full_tree1 |-> \/ which_tree < pe.last_local_tree
                       \/ (next_pos.x = 0 /\ next_pos.y = 0),
        first_pos |-> first_pos,
        next_pos |-> next_pos]

\* The test of the removal loop: q2 is outside of the unit square or at
\* least partially outside of the tree bounds.
NonOwned(info, q2) ==
    \/ ~ p4est_quadrant_is_inside_root(q2)
    \/ /\ ~ info.full_tree0
       /\ p4est_quadrant_compare(q2, info.first_pos) < 0
       /\ (q2.x # info.first_pos.x \/ q2.y # info.first_pos.y)
    \/ /\ ~ info.full_tree1
       /\ p4est_quadrant_compare(
             info.next_pos,
             p4est_quadrant_last_descendant(q2, P4EST_QMAXLEVEL)) <= 0

\* max over the levels of the leaves of s, 0 for none.
MaxLevelOf(s) ==
    IF s = <<>> THEN 0
    ELSE CHOOSE m \in {s[i].level : i \in DOMAIN s} :
            \A i \in DOMAIN s : s[i].level <= m

\* The number of removed quadrants is left in ret.
p4est_tree_remove_nonowned(w, pe, which_tree) ==
    LET inlist == w.quadrants
        incount == Len(inlist)
        info == p4est_comm_tree_info(pe, which_tree)
        loop[zz \in 0 .. incount] ==
           IF zz = 0 THEN [w |-> w, good |-> <<>>]
           ELSE Once({IF NonOwned(info, q2)
                      THEN [w |-> p4est_quadrant_free_data(
                                    [prev.w EXCEPT
                                       !.quadrants_per_level[q2.level] = @ - 1],
                                    q2),
                            good |-> prev.good]
                      ELSE [w |-> prev.w, good |-> Append(prev.good, q2)] :
                      prev \in {loop[zz - 1]}, q2 \in {inlist[zz]}})
    IN IF incount = 0 THEN [w EXCEPT !.ret = 0]
       ELSE Once({[end.w EXCEPT !.quadrants = end.good,
                                !.maxlevel = MaxLevelOf(end.good),
                                !.ret = incount - Len(end.good)] :
                    end \in {loop[incount]}})

\* The largest level l <= P4EST_QMAXLEVEL with a positive counter, else 0.
MaxCountedLevel(quadrants_per_level) ==
    LET used == {i \in 0 .. P4EST_QMAXLEVEL : quadrants_per_level[i] > 0}
    IN IF used = {} THEN 0
       ELSE CHOOSE m \in used : \A i \in used : i <= m

\* The loop that removes a quadrant only when its successor equals it.
p4est_linearize_tree_EqualOnly(w) ==
    LET inlist == w.quadrants
        incount == Len(inlist)
        \* done: the array below current; q1: the element at current.
        loop[rest \in 1 .. incount] ==
           IF rest = 1 THEN [w |-> w, done |-> <<>>, q1 |-> inlist[1]]
           ELSE Once({IF p4est_quadrant_is_equal(prev.q1, q2)
                      THEN [w |-> p4est_quadrant_free_data(
                                    [prev.w EXCEPT
                                       !.quadrants_per_level[prev.q1.level]
                                          = @ - 1],
                                    prev.q1),
                            done |-> prev.done,
                            q1 |-> q2]
                      ELSE [w |-> prev.w,
                            done |-> Append(prev.done, prev.q1),
                            q1 |-> q2] :
                      prev \in {loop[rest - 1]}, q2 \in {inlist[rest]}})
    IN IF incount <= 1 THEN [w EXCEPT !.ret = 0]
       ELSE Once({[end.w EXCEPT
                     !.quadrants = Append(end.done, end.q1),
                     !.maxlevel = MaxCountedLevel(end.w.quadrants_per_level),
                     !.ret = incount - (Len(end.done) + 1)] :
                    end \in {loop[incount]}})

\* The number of removed quadrants is left in ret.
p4est_linearize_tree(w) ==
    LET inlist == w.quadrants
        incount == Len(inlist)
        \* done: the array below current; q1: the element at current.
        loop[rest \in 1 .. incount] ==
           IF rest = 1 THEN [w |-> w, done |-> <<>>, q1 |-> inlist[1]]
           ELSE Once({IF \/ p4est_quadrant_is_equal(prev.q1, q2)
                         \/ p4est_quadrant_is_ancestor(prev.q1, q2)
                      THEN [w |-> p4est_quadrant_free_data(
                                    [prev.w EXCEPT
                                       !.quadrants_per_level[prev.q1.level]
                                          = @ - 1],
                                    prev.q1),
                            done |-> prev.done,
                            q1 |-> q2]
                      ELSE [w |-> prev.w,
                            done |-> Append(prev.done, prev.q1),
                            q1 |-> q2] :
                      prev \in {loop[rest - 1]}, q2 \in {inlist[rest]}})
    IN IF incount <= 1 THEN [w EXCEPT !.ret = 0]
       ELSE Once({[end.w EXCEPT
                     !.quadrants = Append(end.done, end.q1),
                     !.maxlevel = MaxCountedLevel(end.w.quadrants_per_level),
                     !.ret = incount - (Len(end.done) + 1)] :
                    end \in {loop[incount]}})

(***************************************************************************)
(* p4est_complete_or_balance                                               *)
(***************************************************************************)

\* The two tags of a candidate: p.user_data = key or parent_key.
key == -1

parent_key == -2

\* Indexed by balance + 1.
p4est_balance_count == <<5, 7, 8>>

\* Indexed by sindex + 1: faces, then corners.
p4est_balance_coord ==
    << <<-1, 1>>, <<2, 0>>, <<1, -1>>, <<0, 2>>,
       <<-1, -1>>, <<2, -1>>, <<-1, 2>>, <<2, 2>> >>

pbco == P4EST_FACES

\* The two faces that meet in a corner, indexed by corner and by 1, 2.
p4est_corner_faces ==
    [c \in 0 .. P4EST_CHILDREN - 1 |->
       <<c % 2, 2 + (c \div 2)>>]

P4EST_CONNECT_FACE == 21

P4EST_CONNECT_FULL == 22

p4est_connect_type_int(btype) ==
    IF btype = P4EST_CONNECT_FACE THEN 1 ELSE 2

\* Stage 2 without the search in the input list.
BalanceInclude_NoSearch(b, inlist, qalloc, sid) ==
    IF [qalloc EXCEPT !.ud = parent_key] \in b.hash
    THEN [b EXCEPT !.brk = (sid = P4EST_CHILDREN)]
    ELSE IF [qalloc EXCEPT !.ud = key] \in b.hash THEN b
    ELSE LET ins == IF sid = P4EST_CHILDREN
                    THEN [qalloc EXCEPT !.ud = parent_key]
                    ELSE qalloc
         IN [b EXCEPT !.hash = @ \cup {ins},
                      !.outlist[qalloc.level] = Append(@, ins),
                      !.qpool = @ + 1]

\* Stage 2: include the candidate qalloc unless the hash of its level or
\* the input list holds it.  brk: leave the loop over sid.
BalanceInclude(b, inlist, qalloc, sid) ==
    IF [qalloc EXCEPT !.ud = parent_key] \in b.hash
    THEN [b EXCEPT !.brk = (sid = P4EST_CHILDREN)]
    ELSE IF [qalloc EXCEPT !.ud = key] \in b.hash THEN b
    ELSE IF sc_array_bsearch(inlist, qalloc, "compare") # -1 THEN b
    ELSE LET ins == IF sid = P4EST_CHILDREN
                    THEN [qalloc EXCEPT !.ud = parent_key]
                    ELSE qalloc
         IN [b EXCEPT !.hash = @ \cup {ins},
                      !.outlist[qalloc.level] = Append(@, ins),
                      !.qpool = @ + 1]

\* Stage 1 for one sid: the candidate is a sibling of q, the parent of q or
\* an indirect neighbour of the parent.
BalanceCandidate(b, inlist, q, l, balance, isfamily, isoutroot, sid) ==
    IF sid < P4EST_CHILDREN
    THEN IF p4est_quadrant_child_id(q) = sid \/ isfamily \/ isoutroot THEN b
         ELSE BalanceInclude(
                b, inlist,
                [p4est_quadrant_sibling(q, sid) EXCEPT !.ud = key], sid)
    ELSE IF sid = P4EST_CHILDREN
    THEN LET parent == [p4est_quadrant_parent(q) EXCEPT !.ud = key]
             pid == p4est_quadrant_child_id(parent)
             b1 == IF balance > 0
                   THEN [b EXCEPT
                           !.pshift = IF pid > 0 /\ parent.level > 0
                                      THEN p4est_quadrant_sibling(parent, 0)
                                      ELSE parent,
                           !.ph = P4EST_QUADRANT_LEN(parent.level),
                           !.pid = pid]
                   ELSE b
         IN BalanceInclude(b1, inlist, parent, sid)
    ELSE IF l = 1 THEN [b EXCEPT !.brk = TRUE]
    ELSE LET sindex == IF sid < p4est_balance_count[2]
                       THEN p4est_corner_faces[b.pid][
                               sid - p4est_balance_count[1] + 1]
                       ELSE pbco + b.pid
             qalloc == [x |-> b.pshift.x
                                + p4est_balance_coord[sindex + 1][1] * b.ph,
                        y |-> b.pshift.y
                                + p4est_balance_coord[sindex + 1][2] * b.ph,
                        level |-> b.pshift.level,
                        ud |-> key]
         IN IF IF isoutroot THEN ~ p4est_quadrant_is_inside_3x3(qalloc)
               ELSE ~ p4est_quadrant_is_inside_root(qalloc)
            THEN b
            ELSE BalanceInclude(b, inlist, qalloc, sid)

\* BalanceQuadrant with the bound of the loop over sid read one entry too
\* low in p4est_balance_count.
BalanceQuadrant_LowBound(b, inlist, q, l, balance, isfamily) ==
    LET isoutroot == ~ p4est_quadrant_is_inside_root(q)
        rbound == IF isoutroot THEN p4est_balance_count[P4EST_DIM + 1]
                  ELSE p4est_balance_count[SC_MAX(balance, 1)]
        after[sid \in 0 .. rbound] ==
           IF sid = 0 THEN [b EXCEPT !.brk = FALSE]
           ELSE Once({IF prev.brk THEN prev
                      ELSE BalanceCandidate(prev, inlist, q, l, balance,
                                            isfamily, isoutroot, sid - 1) :
                      prev \in {after[sid - 1]}})
    IN after[rbound]

\* The loop over sid for one quadrant q of level l.
BalanceQuadrant(b, inlist, q, l, balance, isfamily) ==
    LET isoutroot == ~ p4est_quadrant_is_inside_root(q)
        rbound == IF isoutroot THEN p4est_balance_count[P4EST_DIM + 1]
                  ELSE p4est_balance_count[balance + 1]
        \* after[sid]: the state when the iterations below sid are done.
        after[sid \in 0 .. rbound] ==
           IF sid = 0 THEN [b EXCEPT !.brk = FALSE]
           ELSE Once({IF prev.brk THEN prev
                      ELSE BalanceCandidate(prev, inlist, q, l, balance,
                                            isfamily, isoutroot, sid - 1) :
                      prev \in {after[sid - 1]}})
    IN after[rbound]

\* The input quadrant inlist[iz] of level l: a family of siblings is
\* processed by its first member and the others are skipped.
BalanceInput(b, inlist, iz, l, balance) ==
    Once({BalanceQuadrant(
            [b EXCEPT !.next = IF isfamily THEN iz + P4EST_CHILDREN
                               ELSE iz + 1],
            inlist, inlist[iz], l, balance, isfamily) :
            isfamily \in {/\ iz + P4EST_CHILDREN - 1 <= Len(inlist)
                          /\ p4est_quadrant_is_familypv(
                                SubSeq(inlist, iz, iz + P4EST_CHILDREN - 1))}})

\* BalanceLevel that walks the input quadrants only, never outlist[l].
BalanceLevel_InputOnly(b, inlist, l, balance) ==
    LET incount == Len(inlist)
        after[iz \in 0 .. incount] ==
           IF iz = 0 THEN [b EXCEPT !.next = 1]
           ELSE Once({IF iz < prev.next \/ inlist[iz].level # l THEN prev
                      ELSE BalanceInput(prev, inlist, iz, l, balance) :
                      prev \in {after[iz - 1]}})
    IN after[incount]

\* One level of the bottom-up walk: the input quadrants of level l, then
\* the part of outlist[l] that exists when the level starts.
BalanceLevel(b, inlist, l, balance) ==
    LET incount == Len(inlist)
        ocount == Len(b.outlist[l])
        \* after[iz]: the state when the first iz iterations are done;
        \* next: the first index the loop does not skip.
        after[iz \in 0 .. incount + ocount] ==
           IF iz = 0 THEN [b EXCEPT !.next = 1]
           ELSE Once({IF iz <= incount
                      THEN IF iz < prev.next \/ inlist[iz].level # l
                           THEN prev
                           ELSE BalanceInput(prev, inlist, iz, l, balance)
                      ELSE BalanceQuadrant(prev, inlist,
                                           prev.outlist[l][iz - incount],
                                           l, balance, FALSE) :
                      prev \in {after[iz - 1]}})
    IN after[incount + ocount]

\* The merge that keeps the candidates that it has copied.
BalanceMerge_KeepMerged(w, olist, which_tree, init_fn) ==
    LET after[iz \in 0 .. Len(olist)] ==
           IF iz = 0 THEN w
           ELSE Once({IF p4est_quadrant_is_inside_root(qalloc)
                      THEN Once({[w1 EXCEPT !.quadrants = Append(@, w1.last)] :
                                   w1 \in {p4est_quadrant_init_data(
                                             [prev EXCEPT
                                                !.quadrants_per_level[
                                                   qalloc.level] = @ + 1],
                                             which_tree, qalloc, init_fn)}})
                      ELSE [prev EXCEPT !.qpool = @ - 1] :
                      prev \in {after[iz - 1]}, qalloc \in {olist[iz]}})
    IN after[Len(olist)]

\* Merge outlist[l] into the input list: the quadrants inside the root are
\* copied and initialised, every candidate goes back to the quadrant pool.
BalanceMerge(w, olist, which_tree, init_fn) ==
    LET after[iz \in 0 .. Len(olist)] ==
           IF iz = 0 THEN w
           ELSE Once({IF p4est_quadrant_is_inside_root(qalloc)
                      THEN Once({[w1 EXCEPT !.quadrants = Append(@, w1.last),
                                            !.qpool = @ - 1] :
                                   w1 \in {p4est_quadrant_init_data(
                                             [prev EXCEPT
                                                !.quadrants_per_level[
                                                   qalloc.level] = @ + 1],
                                             which_tree, qalloc, init_fn)}})
                      ELSE [prev EXCEPT !.qpool = @ - 1] :
                      prev \in {after[iz - 1]}, qalloc \in {olist[iz]}})
    IN after[Len(olist)]

\* The temporary storage before the walk: an empty hash and an empty
\* output list for each level 0 .. inmaxl, and the first qalloc.
BalanceStart(w) ==
    [outlist |-> [l \in 0 .. w.maxlevel |-> <<>>],
     hash |-> {},
     qpool |-> w.qpool + 1,
     ph |-> 0, pid |-> -1, pshift |-> Quad(0, 0, 0),
     brk |-> FALSE, next |-> 1]

\* The bottom-up walk over the levels inmaxl .. 1 (stages 1 and 2).
BalanceWalk(w, balance) ==
    LET inlist == w.quadrants
        inmaxl == w.maxlevel
        \* walk[k]: the state when the levels above inmaxl - k are done.
        walk[k \in 0 .. inmaxl] ==
           IF k = 0 THEN BalanceStart(w)
           ELSE Once({BalanceLevel(b, inlist, inmaxl - k + 1, balance) :
                        b \in {walk[k - 1]}})
    IN walk[inmaxl]

\* Merge the outlists of all levels into the input list and sort it.
BalanceMergeLevels(w, b, which_tree, init_fn) ==
    LET merged[l \in -1 .. w.maxlevel] ==
           IF l = -1 THEN [w EXCEPT !.qpool = b.qpool - 1]
           ELSE Once({IF /\ \E iz \in DOMAIN b.outlist[l] :
                              p4est_quadrant_is_inside_root(b.outlist[l][iz])
                         /\ l > m.maxlevel
                      THEN [m EXCEPT !.maxlevel = l]
                      ELSE m :
                      m \in {Once({BalanceMerge(prev, b.outlist[l],
                                                which_tree, init_fn) :
                                     prev \in {merged[l - 1]}})}})
    IN Once({[w1 EXCEPT !.quadrants = sc_array_sort(@, "compare")] :
               w1 \in {merged[w.maxlevel]}})

\* Remove the quadrants outside of the owned part of the tree, then
\* linearize; the number of removed non-owned quadrants is num_nonowned.
BalanceReduce(w2, pe, which_tree) ==
    Once({Once({[w4 EXCEPT !.num_nonowned = w3.ret] :
                  w4 \in {p4est_linearize_tree(w3)}}) :
            w3 \in {p4est_tree_remove_nonowned(w2, pe, which_tree)}})

p4est_complete_or_balance(w, pe, which_tree, init_fn, balance) ==
    IF Len(w.quadrants) = 0 THEN w
    ELSE Once({Once({BalanceReduce(w2, pe, which_tree) :
                       w2 \in {BalanceMergeLevels(w, b, which_tree, init_fn)}}) :
                 b \in {BalanceWalk(w, balance)}})

\* The completion that asks for the face balance.
p4est_complete_subtree_Balancing(w, pe, which_tree, init_fn) ==
    p4est_complete_or_balance(w, pe, which_tree, init_fn, 1)

p4est_complete_subtree(w, pe, which_tree, init_fn) ==
    p4est_complete_or_balance(w, pe, which_tree, init_fn, 0)

p4est_balance_subtree(w, pe, btype, which_tree, init_fn) ==
    p4est_complete_or_balance(w, pe, which_tree, init_fn,
                              p4est_connect_type_int(btype))

(***************************************************************************)
(* p4est_balance_border                                                    *)
(*                                                                         *)
(* qarray is the border of the tree: leaves of the tree, each followed by  *)
(* the seeds inside of it.  The leaves that have seeds are replaced by the *)
(* coarsest balanced subtree that holds the seeds.                         *)
(***************************************************************************)

\* The tag of a seed that a finer candidate has made superfluous.
block_key == -3

\* Sort the border and remove duplicates: p is the index of the last entry
\* kept, jz the number included, kz the number skipped.
BorderUnique(qarray) ==
    LET qcount == Len(qarray)
        loop[iz \in 0 .. qcount - 1] ==
           IF iz = 0
           THEN [qarray |-> sc_array_sort(qarray, "compare"),
                 p |-> 0, jz |-> 1, kz |-> 0]
           ELSE Once({IF ~ p4est_quadrant_is_equal(st.qarray[iz + 1],
                                                    st.qarray[st.p + 1])
                      THEN [st EXCEPT
                              !.p = @ + 1, !.jz = @ + 1,
                              !.qarray[st.p + 2] =
                                 IF st.kz = 0 THEN st.qarray[iz + 1] ELSE @]
                      ELSE [st EXCEPT !.kz = @ + 1] :
                      st \in {loop[iz - 1]}})
    IN Once({sc_array_resize(st.qarray, st.jz) : st \in {loop[qcount - 1]}})

\* The seeds of the border entry at iz (from 0): kz is the index behind the
\* last entry that descends from it, maxlevel the deepest level among them.
BorderSeeds(qarray, iz) ==
    LET qcount == Len(qarray)
        p == qarray[iz + 1]
        scan[kz \in iz + 1 .. qcount] ==
           IF kz = iz + 1
           THEN [kz |-> kz, maxlevel |-> p.level + 1, open |-> TRUE]
           ELSE Once({IF prev.open /\ p4est_quadrant_is_ancestor(p, qarray[kz])
                      THEN [kz |-> kz,
                            maxlevel |-> SC_MAX(prev.maxlevel, qarray[kz].level),
                            open |-> TRUE]
                      ELSE [prev EXCEPT !.open = FALSE] :
                      prev \in {scan[kz - 1]}})
    IN scan[qcount]

\* The smallest ancestor that is needed: go up while the parent is the
\* child pid of its parent.
RECURSIVE BorderAncestor(_, _, _)
BorderAncestor(qalloc, minlevel, pid) ==
    IF /\ qalloc.level > minlevel + 1
       /\ p4est_quadrant_ancestor_id(qalloc, qalloc.level - 1) = pid
    THEN BorderAncestor(p4est_quadrant_parent(qalloc), minlevel, pid)
    ELSE qalloc

\* The candidate sid of a quadrant whose parent is the child pid and has
\* the first sibling par: the ancestor, a face neighbour or the corner
\* neighbour of the parent, of twice the size ph of the parent.
BorderCandidate(par, pid, ph, minlevel, sid) ==
    LET dx == IF pid % 2 = 1 THEN ph ELSE -ph
        dy == IF (pid \div 2) % 2 = 1 THEN ph ELSE -ph
    IN IF sid = 0
       THEN p4est_quadrant_sibling(BorderAncestor(par, minlevel, pid), 0)
       ELSE IF sid = 1 THEN [par EXCEPT !.x = par.x + dx]
       ELSE IF sid = 2 THEN [par EXCEPT !.y = par.y + dy]
       ELSE [par EXCEPT !.x = par.x + dx, !.y = par.y + dy]

\* Store qalloc away in the hash and the output list of its level.
BorderInsert(b, qalloc) ==
    [b EXCEPT !.hash = @ \cup {Bare(qalloc)},
              !.outlist[qalloc.level] = Append(@, qalloc),
              !.qpool = @ + 1]

\* Include qalloc unless it is outside of p, in the output list, in the
\* input list, or an ancestor of an input quadrant that nobody needs yet.
BorderInclude(b, p, qalloc, sid) ==
    IF sid # 0 /\ ~ p4est_quadrant_is_ancestor(p, qalloc) THEN b
    ELSE IF Bare(qalloc) \in b.hash THEN b
    ELSE Once({IF srindex = -1 THEN BorderInsert(b, qalloc)
               ELSE IF p4est_quadrant_is_equal(b.inlist[srindex], qalloc)
               THEN b
               ELSE IF p4est_quadrant_is_ancestor(b.inlist[srindex], qalloc)
               THEN BorderInsert(
                      [b EXCEPT !.inlist[srindex].ud = block_key], qalloc)
               ELSE IF sid # 0 THEN b
               ELSE BorderInsert(b, qalloc) :
               srindex \in {sc_array_bsearch(b.inlist, qalloc, "disjoint")}})

\* The loop over sid for one quadrant q.
BorderQuadrant(b, p, q, minlevel, bound) ==
    LET parent == p4est_quadrant_parent(q)
        ph == P4EST_QUADRANT_LEN(parent.level - 1)
        pid == p4est_quadrant_child_id(parent)
        par == p4est_quadrant_sibling(parent, 0)
        after[sid \in 0 .. bound] ==
           IF sid = 0 THEN b
           ELSE Once({BorderInclude(
                        prev, p,
                        BorderCandidate(par, pid, ph, minlevel, sid - 1),
                        sid - 1) :
                      prev \in {after[sid - 1]}})
    IN after[bound]

\* One level of the bottom-up walk: the input quadrants of level l that
\* are not blocked, then the part of outlist[l] that exists when the level
\* starts.
BorderLevel(b, p, l, minlevel, bound, incount) ==
    LET ocount == Len(b.outlist[l])
        after[jz \in 0 .. incount + ocount] ==
           IF jz = 0 THEN b
           ELSE Once({IF jz <= incount
                      THEN IF \/ prev.inlist[jz].level # l
                              \/ prev.inlist[jz].ud = block_key
                           THEN prev
                           ELSE BorderQuadrant(prev, p, prev.inlist[jz],
                                               minlevel, bound)
                      ELSE BorderQuadrant(prev, p,
                                          prev.outlist[l][jz - incount],
                                          minlevel, bound) :
                      prev \in {after[jz - 1]}})
    IN after[incount + ocount]

\* The walk over the levels maxlevel .. minlevel + 2, then the merge of
\* the output lists into the input list, which is sorted.
BorderWalk(inlist, p, minlevel, maxlevel, bound, qpool) ==
    LET levels == SC_MAX(maxlevel - (minlevel + 1), 0)
        walk[k \in 0 .. levels] ==
           IF k = 0
           THEN [inlist |-> inlist,
                 outlist |-> [l \in Levels |-> <<>>],
                 hash |-> {},
                 qpool |-> qpool + 1]
           ELSE Once({BorderLevel(b, p, maxlevel - k + 1, minlevel, bound,
                                  Len(inlist)) :
                      b \in {walk[k - 1]}})
        merged[l \in minlevel .. maxlevel] ==
           IF l = minlevel THEN walk[levels].inlist
           ELSE Once({prev \o walk[levels].outlist[l] :
                      prev \in {merged[l - 1]}})
    IN [inlist |-> sc_array_sort(merged[maxlevel], "compare"),
        qpool |-> qpool]

\* If tempq is a last sibling, go up a level.
RECURSIVE BorderUp(_, _)
BorderUp(st, minlevel) ==
    IF st.tempq.level >= minlevel /\ st.pid = P4EST_CHILDREN - 1
    THEN Once({BorderUp([st EXCEPT !.tempq = tempp,
                                   !.pid = p4est_quadrant_child_id(tempp)],
                        minlevel) :
               tempp \in {p4est_quadrant_parent(st.tempq)}})
    ELSE st

\* Step through inlist and fill in the gaps: tempq runs over the coarsest
\* quadrants between the entries of inlist, q is the entry at jz.
RECURSIVE BorderFill(_, _, _)
BorderFill(st, inlist, minlevel) ==
    IF \/ st.jz >= Len(inlist)
       \/ /\ ~ p4est_quadrant_is_equal(st.tempq, inlist[st.jz + 1])
          /\ ~ p4est_quadrant_is_ancestor(st.tempq, inlist[st.jz + 1])
    THEN \* tempq comes before q: add tempq to flist, take the next sibling
         Once({IF up.tempq.level < minlevel THEN up.flist
               ELSE BorderFill(
                      [up EXCEPT
                         !.tempq = p4est_quadrant_sibling(@, up.pid + 1),
                         !.pid = @ + 1],
                      inlist, minlevel) :
               up \in {BorderUp([st EXCEPT !.flist = Append(@, st.tempq)],
                                minlevel)}})
    ELSE IF st.tempq.level < minlevel THEN st.flist
    ELSE Once({IF q.x = st.tempq.x /\ q.y = st.tempq.y
               THEN \* q is the first descendant of tempq: tempq becomes q
                    BorderFill(
                      [st EXCEPT
                         !.pid = IF q.level > st.tempq.level THEN 0 ELSE @,
                         !.tempq.level = q.level,
                         !.jz = @ + 1],
                      inlist, minlevel)
               ELSE \* the largest first descendant of tempq before q
                    BorderFill(
                      [st EXCEPT
                         !.tempq =
                            [p4est_nearest_common_ancestor(
                               p4est_quadrant_first_descendant(
                                  st.tempq, P4EST_QMAXLEVEL), q)
                               EXCEPT !.level = @ + 1],
                         !.pid = 0],
                      inlist, minlevel) :
               q \in {inlist[st.jz + 1]}})

\* The replacement that leaves the replaced leaf in the counters.
BorderReplace_KeepCount(w, which_tree, tqindex, flist, init_fn) ==
    LET old == w.quadrants[tqindex + 1]
        put[jz \in 0 .. Len(flist)] ==
           IF jz = 0
           THEN [p4est_quadrant_free_data(w, old) EXCEPT
                   !.quadrants =
                      SubSeq(w.quadrants, 1, tqindex)
                         \o [i \in DOMAIN flist |-> Bare(flist[i])]
                         \o SubSeq(w.quadrants, tqindex + 2, Len(w.quadrants))]
           ELSE Once({[w1 EXCEPT !.quadrants[tqindex + jz] = w1.last] :
                      w1 \in {Once({p4est_quadrant_init_data(
                                      [prev EXCEPT
                                         !.quadrants_per_level[q.level] = @ + 1,
                                         !.maxlevel = SC_MAX(@, q.level)],
                                      which_tree, q, init_fn) :
                                    prev \in {put[jz - 1]},
                                    q \in {Bare(flist[jz])}})}})
    IN put[Len(flist)]

\* Put flist in the place of the leaf at tqindex (from 0): free the
\* payload of the leaf and uncount it, count and initialise the new leaves.
BorderReplace(w, which_tree, tqindex, flist, init_fn) ==
    LET old == w.quadrants[tqindex + 1]
        put[jz \in 0 .. Len(flist)] ==
           IF jz = 0
           THEN [p4est_quadrant_free_data(w, old) EXCEPT
                   !.quadrants =
                      SubSeq(w.quadrants, 1, tqindex)
                         \o [i \in DOMAIN flist |-> Bare(flist[i])]
                         \o SubSeq(w.quadrants, tqindex + 2, Len(w.quadrants)),
                   !.quadrants_per_level[old.level] = @ - 1]
           ELSE Once({[w1 EXCEPT !.quadrants[tqindex + jz] = w1.last] :
                      w1 \in {Once({p4est_quadrant_init_data(
                                      [prev EXCEPT
                                         !.quadrants_per_level[q.level] = @ + 1,
                                         !.maxlevel = SC_MAX(@, q.level)],
                                      which_tree, q, init_fn) :
                                    prev \in {put[jz - 1]},
                                    q \in {Bare(flist[jz])}})}})
    IN put[Len(flist)]

\* The border entry at iz has seeds: find it in the tree behind tqoffset,
\* balance the seeds within it and replace it.
BorderEntry(st, which_tree, init_fn, iz, seeds, bound) ==
    LET p == st.qarray[iz + 1]
        minlevel == p.level + 1
        tqview == SubSeq(st.w.quadrants, st.tqoffset + 1, Len(st.w.quadrants))
    IN Once({Once({Once({[st EXCEPT
                            !.w = [BorderReplace(st.w, which_tree, tqindex,
                                                 flist, init_fn)
                                     EXCEPT !.qpool = b.qpool],
                            !.tqoffset = tqindex + 1 + Len(flist) - 1,
                            !.num_added = @ + Len(flist) - 1,
                            !.next = seeds.kz] :
                         flist \in {BorderFill(
                                      [tempq |-> p4est_quadrant_first_descendant(
                                                    Bare(p), minlevel),
                                       pid |-> 0, jz |-> 0, flist |-> <<>>],
                                      b.inlist, minlevel)}}) :
                   b \in {BorderWalk(
                            [i \in 1 .. seeds.kz - (iz + 1) |->
                               SetUd(st.qarray[iz + 1 + i], key)],
                            p, minlevel, seeds.maxlevel, bound, st.w.qpool)}}) :
             tqindex \in {sc_array_bsearch(tqview, p, "compare") - 1
                             + st.tqoffset}})

\* One turn of the loop over the border.
BorderStep(st, tree, which_tree, init_fn, iz, bound) ==
    Once({IF \/ /\ p4est_quadrant_compare(p, tree.first_desc) < 0
                /\ ~ p4est_quadrant_is_ancestor(p, tree.first_desc)
             \/ p4est_quadrant_compare(p, tree.last_desc) > 0
          THEN [st EXCEPT !.next = iz + 1]
          ELSE Once({IF seeds.kz = iz + 1 THEN [st EXCEPT !.next = iz + 1]
                     ELSE BorderEntry(st, which_tree, init_fn, iz, seeds,
                                      bound) :
                     seeds \in {BorderSeeds(st.qarray, iz)}}) :
          p \in {st.qarray[iz + 1]}})

\* w is the work record of the tree which_tree, qarray its border.
p4est_balance_border(w, pe, btype, which_tree, init_fn, qarray) ==
    LET bound == IF btype = P4EST_CONNECT_FULL THEN 2 ^ P4EST_DIM
                 ELSE P4EST_DIM + 1
        tree == pe.trees[which_tree]
        unique == BorderUnique(qarray)
        loop[iz \in -1 .. Len(unique) - 1] ==
           IF iz = -1
           THEN [w |-> w, qarray |-> unique, tqoffset |-> 0,
                 num_added |-> 0, next |-> 0]
           ELSE Once({IF iz < st.next THEN st
                      ELSE BorderStep(st, tree, which_tree, init_fn, iz,
                                      bound) :
                      st \in {loop[iz - 1]}})
    IN IF Len(qarray) = 0 THEN w
       ELSE loop[Len(unique) - 1].w

(***************************************************************************)
(* p4est_partition_correction                                              *)
(*                                                                         *)
(* partition has the entries 0 .. num_procs.  The state of the two search  *)
(* loops is (i, max_num_quadrants, rank_with_max_quads); undefined is set  *)
(* when a loop reads partition outside of its entries, and the loop ends   *)
(* there.                                                                  *)
(***************************************************************************)

\* The decreasing search without the preference for the lower process.
RECURSIVE CorrectionDown_Strict(_, _, _)
CorrectionDown_Strict(partition, min_quadrant_id, st) ==
    IF st.i + 1 \notin DOMAIN partition THEN [st EXCEPT !.undefined = TRUE]
    ELSE IF ~ (min_quadrant_id < partition[st.i + 1]) THEN st
    ELSE IF st.i \notin DOMAIN partition THEN [st EXCEPT !.undefined = TRUE]
    ELSE Once({CorrectionDown_Strict(
                 partition, min_quadrant_id,
                 IF st.max_num_quadrants < h
                 THEN [st EXCEPT !.max_num_quadrants = h,
                                 !.rank_with_max_quads = st.i,
                                 !.i = @ - 1]
                 ELSE [st EXCEPT !.i = @ - 1]) :
               h \in {partition[st.i + 1]
                        - SC_MAX(min_quadrant_id, partition[st.i])}})

\* The decreasing search for the process with the most quadrants.
RECURSIVE CorrectionDown(_, _, _)
CorrectionDown(partition, min_quadrant_id, st) ==
    IF st.i + 1 \notin DOMAIN partition THEN [st EXCEPT !.undefined = TRUE]
    ELSE IF ~ (min_quadrant_id < partition[st.i + 1]) THEN st
    ELSE IF st.i \notin DOMAIN partition THEN [st EXCEPT !.undefined = TRUE]
    ELSE Once({CorrectionDown(
                 partition, min_quadrant_id,
                 IF st.max_num_quadrants <= h
                 THEN [st EXCEPT !.max_num_quadrants = h,
                                 !.rank_with_max_quads = st.i,
                                 !.i = @ - 1]
                 ELSE [st EXCEPT !.i = @ - 1]) :
               h \in {partition[st.i + 1]
                        - SC_MAX(min_quadrant_id, partition[st.i])}})

\* The increasing search for the process with the most quadrants.
RECURSIVE CorrectionUp(_, _, _)
CorrectionUp(partition, max_quadrant_id, st) ==
    IF st.i \notin DOMAIN partition THEN [st EXCEPT !.undefined = TRUE]
    ELSE IF ~ (partition[st.i] <= max_quadrant_id) THEN st
    ELSE IF st.i + 1 \notin DOMAIN partition
    THEN [st EXCEPT !.undefined = TRUE]
    ELSE Once({CorrectionUp(
                 partition, max_quadrant_id,
                 IF st.max_num_quadrants < h
                 THEN [st EXCEPT !.max_num_quadrants = h,
                                 !.rank_with_max_quads = st.i,
                                 !.i = @ + 1]
                 ELSE [st EXCEPT !.i = @ + 1]) :
               h \in {SC_MIN(max_quadrant_id, partition[st.i + 1] - 1)
                        - partition[st.i] + 1}})

\* The result: ret is the correction, rank_with_max_quads the process that
\* the search has found.
p4est_partition_correction(partition, num_procs, rank, min_quadrant_id, max_quadrant_id) ==
    LET st0 == [i |-> rank - 1,
                max_num_quadrants |->
                   SC_MIN(max_quadrant_id, partition[rank + 1] - 1)
                     - partition[rank] + 1,
                rank_with_max_quads |-> rank,
                undefined |-> FALSE]
    IN IF max_quadrant_id - min_quadrant_id + 1 # P4EST_CHILDREN
       THEN [ret |-> 0, rank_with_max_quads |-> rank, searched |-> FALSE,
             undefined |-> FALSE]
       ELSE Once({Once({[ret |-> IF up.rank_with_max_quads < rank
                                 THEN partition[rank] - max_quadrant_id - 1
                                 ELSE partition[rank] - min_quadrant_id,
                         rank_with_max_quads |-> up.rank_with_max_quads,
                         searched |-> TRUE,
                         undefined |-> up.undefined] :
                          up \in {IF down.undefined THEN down
                                  ELSE CorrectionUp(
                                         partition, max_quadrant_id,
                                         [down EXCEPT
                                            !.i = down.rank_with_max_quads
                                                    + 1])}}) :
                    down \in {CorrectionDown(partition, min_quadrant_id,
                                             st0)}})

(***************************************************************************)
(* p4est_partition_given                                                   *)
(*                                                                         *)
(* The function runs on every process with the same array                  *)
(* new_num_quadrants_in_proc.  It blocks in MPI_Waitall for the messages   *)
(* of the other processes and in the collective of                         *)
(* p4est_comm_global_partition; the code between two blocking points is    *)
(* one step of the process.                                                *)
(***************************************************************************)

\* global_last_quad_index[i]: the global index of the last quadrant of i.
global_last_quad_index(pe) ==
    [i \in 0 .. pe.mpisize - 1 |-> pe.global_first_quadrant[i + 1] - 1]

\* The same for the repartitioned forest.
new_global_last_quad_index(pe, new_num_quadrants_in_proc) ==
    LET last[i \in 0 .. pe.mpisize - 1] ==
           IF i = 0 THEN new_num_quadrants_in_proc[0] - 1
           ELSE new_num_quadrants_in_proc[i] + last[i - 1]
    IN [i \in 0 .. pe.mpisize - 1 |-> last[i]]

\* The count with the minimum taken against the wrong process when the old
\* boundary lies behind the new one.
total_quadrants_shipped_WrongSide(num_procs, glqi, nglqi, new_num_quadrants_in_proc) ==
    LET shipped[i \in 0 .. num_procs - 1] ==
           IF i = 0 THEN 0
           ELSE Once({shipped[i - 1]
                        + SC_MIN(IF diff64 >= 0 THEN diff64 ELSE -diff64,
                                 new_num_quadrants_in_proc[i - 1]) :
                      diff64 \in {glqi[i - 1] - nglqi[i - 1]}})
    IN shipped[num_procs - 1]

\* The global number of shipped (= received) quadrants.
total_quadrants_shipped(num_procs, glqi, nglqi, new_num_quadrants_in_proc) ==
    LET shipped[i \in 0 .. num_procs - 1] ==
           IF i = 0 THEN 0
           ELSE Once({shipped[i - 1]
                        + (IF diff64 >= 0
                           THEN SC_MIN(diff64, new_num_quadrants_in_proc[i])
                           ELSE SC_MIN(-diff64,
                                       new_num_quadrants_in_proc[i - 1])) :
                      diff64 \in {glqi[i - 1] - nglqi[i - 1]}})
    IN shipped[num_procs - 1]

\* The local index of the end of each tree; zero outside the local trees.
local_tree_last_quad_index(pe) ==
    LET idx[t \in 0 .. pe.num_trees - 1] ==
           IF t < pe.first_local_tree \/ t > pe.last_local_tree THEN 0
           ELSE IF t = pe.first_local_tree
           THEN Len(pe.trees[t].quadrants) - 1
           ELSE Len(pe.trees[t].quadrants) + idx[t - 1]
    IN [t \in 0 .. pe.num_trees - 1 |-> idx[t]]

\* The test for the index ranges [b1, e1] and [b2, e2] to meet.
Intersects(b1, e1, b2, e2) == b2 <= e1 /\ e2 >= b1

RangeBegin(glqi, i) == IF i = 0 THEN 0 ELSE glqi[i - 1] + 1

\* Where the new quadrants are coming from.
num_recv_from(pe, glqi, nglqi) ==
    [from_proc \in 0 .. pe.mpisize - 1 |->
       Once({IF Intersects(my_begin, my_end, from_begin, from_end)
             THEN SC_MIN(my_end, from_end) - SC_MAX(my_begin, from_begin) + 1
             ELSE 0 :
             my_begin \in {RangeBegin(nglqi, pe.mpirank)},
             my_end \in {nglqi[pe.mpirank]},
             from_begin \in {RangeBegin(glqi, from_proc)},
             from_end \in {glqi[from_proc]}})]

\* The counts of a process that sends to no process above it.
num_send_to_Downwards(pe, glqi, nglqi) ==
    [to_proc \in 0 .. pe.mpisize - 1 |->
       Once({IF /\ Intersects(my_begin, my_end, to_begin, to_end)
                /\ to_proc <= pe.mpirank
             THEN SC_MIN(my_end, to_end) - SC_MAX(my_begin, to_begin) + 1
             ELSE 0 :
             my_begin \in {RangeBegin(glqi, pe.mpirank)},
             my_end \in {glqi[pe.mpirank]},
             to_begin \in {RangeBegin(nglqi, to_proc)},
             to_end \in {nglqi[to_proc]}})]

\* For each process the number of quadrants sent to it.
num_send_to(pe, glqi, nglqi) ==
    [to_proc \in 0 .. pe.mpisize - 1 |->
       Once({IF Intersects(my_begin, my_end, to_begin, to_end)
             THEN SC_MIN(my_end, to_end) - SC_MAX(my_begin, to_begin) + 1
             ELSE 0 :
             my_begin \in {RangeBegin(glqi, pe.mpirank)},
             my_end \in {glqi[pe.mpirank]},
             to_begin \in {RangeBegin(nglqi, to_proc)},
             to_end \in {nglqi[to_proc]}})]

\* The global index of the first quadrant sent to each process, or -1.
begin_send_to(pe, glqi, nglqi) ==
    [to_proc \in 0 .. pe.mpisize - 1 |->
       Once({IF Intersects(my_begin, my_end, to_begin, to_end)
             THEN SC_MAX(my_begin, to_begin)
             ELSE -1 :
             my_begin \in {RangeBegin(glqi, pe.mpirank)},
             my_end \in {glqi[pe.mpirank]},
             to_begin \in {RangeBegin(nglqi, to_proc)},
             to_end \in {nglqi[to_proc]}})]

\* The part of the local tree which_tree inside the local index range
\* [my_begin, my_end]: tree_from_begin, tree_from_end and num_copy, and
\* whether the tree meets the range at all.
TreeSlice(pe, ltlqi, which_tree, my_begin, my_end) ==
    Once({IF from_begin <= my_end /\ from_end >= my_begin
          THEN [overlap |-> TRUE,
                tree_from_begin |-> SC_MAX(my_begin, from_begin) - from_begin,
                tree_from_end |-> SC_MIN(my_end, from_end) - from_begin,
                num_copy |-> SC_MIN(my_end, from_end)
                               - SC_MAX(my_begin, from_begin) + 1]
          ELSE [overlap |-> FALSE, tree_from_begin |-> 0,
                tree_from_end |-> -1, num_copy |-> 0] :
          from_begin \in {IF which_tree = pe.first_local_tree THEN 0
                          ELSE ltlqi[which_tree - 1] + 1},
          from_end \in {ltlqi[which_tree]}})

\* num_send_trees: the length of the per-tree count vector of a process.
NumTreesOf(pe, proc) ==
    pe.global_first_position[proc + 1].which_tree
       - pe.global_first_position[proc].which_tree + 1

\* What the process computes on entry: the two partitions, the return
\* value, and whom it receives from and sends to.
PartitionPlan(pe, new_num_quadrants_in_proc) ==
    Once({[global_last_quad_index |-> glqi,
           new_global_last_quad_index |-> nglqi,
           total_quadrants_shipped |->
              total_quadrants_shipped(pe.mpisize, glqi, nglqi,
                                      new_num_quadrants_in_proc),
           local_tree_last_quad_index |-> local_tree_last_quad_index(pe),
           num_recv_from |-> num_recv_from(pe, glqi, nglqi),
           num_send_to |-> num_send_to(pe, glqi, nglqi),
           begin_send_to |-> begin_send_to(pe, glqi, nglqi)] :
          glqi \in {global_last_quad_index(pe)},
          nglqi \in {new_global_last_quad_index(
                       pe, new_num_quadrants_in_proc)}})

\* The local index range of the quadrants that go to to_proc (to_proc may
\* be the process itself): my_begin and my_end.
SendRange(pe, plan, to_proc) ==
    Once({[my_begin |-> plan.begin_send_to[to_proc] - my_base,
           my_end |-> plan.begin_send_to[to_proc]
                         + plan.num_send_to[to_proc] - 1 - my_base] :
          my_base \in {RangeBegin(plan.global_last_quad_index, pe.mpirank)}})

\* num_per_tree_local: how many quadrants of each local tree stay.
num_per_tree_local(pe, plan) ==
    Once({[it \in 1 .. NumTreesOf(pe, pe.mpirank) |->
             IF /\ it - 1 + pe.first_local_tree >= pe.first_local_tree
                /\ it - 1 + pe.first_local_tree <= pe.last_local_tree
             THEN TreeSlice(pe, plan.local_tree_last_quad_index,
                            it - 1 + pe.first_local_tree,
                            mine.my_begin, mine.my_end).num_copy
             ELSE 0] :
          mine \in {SendRange(pe, plan, pe.mpirank)}})

\* The payload bytes of the quadrants s, none when data_size is 0.
PayloadsOf(pe, s) ==
    IF pe.data_size > 0 THEN [il \in DOMAIN s |-> pe.user_data_pool[s[il].ud]]
    ELSE <<>>

\* Pack the part sl of the tree which_tree behind what is packed in buf.
PackTree(pe, buf, sl, which_tree) ==
    IF ~ sl.overlap THEN buf
    ELSE Once({[my_begin |-> buf.my_begin + sl.num_copy,
                num_per_tree |->
                   [buf.num_per_tree
                      EXCEPT ![which_tree - pe.first_local_tree + 1] =
                                sl.num_copy],
                quads |-> buf.quads
                            \o [il \in DOMAIN part |-> SetUd(part[il], NULL)],
                data |-> buf.data \o PayloadsOf(pe, part)] :
               part \in {SubSeq(pe.trees[which_tree].quadrants,
                                sl.tree_from_begin + 1,
                                sl.tree_from_end + 1)}})

\* The send buffer for to_proc: the per-tree counts, the quadrants with
\* their payload pointers set to NULL, and the payloads.
PackSendBuf(pe, plan, to_proc) ==
    LET range == SendRange(pe, plan, to_proc)
        pack[which_tree \in pe.first_local_tree - 1 .. pe.last_local_tree] ==
           IF which_tree = pe.first_local_tree - 1
           THEN [my_begin |-> range.my_begin,
                 num_per_tree |->
                    [it \in 1 .. NumTreesOf(pe, pe.mpirank) |-> 0],
                 quads |-> <<>>,
                 data |-> <<>>]
           ELSE Once({PackTree(
                        pe, buf,
                        TreeSlice(pe, plan.local_tree_last_quad_index,
                                  which_tree, buf.my_begin, range.my_end),
                        which_tree) :
                      buf \in {pack[which_tree - 1]}})
    IN Once({[src |-> pe.mpirank, dst |-> to_proc,
              num_per_tree |-> buf.num_per_tree,
              quads |-> buf.quads,
              data |-> buf.data] :
             buf \in {pack[pe.last_local_tree]}})

\* sizeof (p4est_locidx_t) and sizeof (p4est_quadrant_t) in bytes.
SizeofLocidx == 4

SizeofQuadrant == 24

quad_plus_data_size(pe) == SizeofQuadrant + pe.data_size

\* send_size: the bytes of the message for to_proc.
send_size(pe, plan, to_proc) ==
    NumTreesOf(pe, pe.mpirank) * SizeofLocidx
       + quad_plus_data_size(pe) * plan.num_send_to[to_proc]

\* The receives when one is posted for every process whose old range
\* meets the new range of the process, also without a quadrant in both.
PostedReceives_Meeting(pe, plan) ==
    {[src |-> from_proc, dst |-> pe.mpirank,
      num |-> plan.num_recv_from[from_proc],
      size |-> NumTreesOf(pe, from_proc) * SizeofLocidx
                  + quad_plus_data_size(pe) * plan.num_recv_from[from_proc]] :
       from_proc \in
          {p \in 0 .. pe.mpisize - 1 :
             /\ p # pe.mpirank
             /\ Intersects(
                   RangeBegin(plan.new_global_last_quad_index, pe.mpirank),
                   plan.new_global_last_quad_index[pe.mpirank],
                   RangeBegin(plan.global_last_quad_index, p),
                   plan.global_last_quad_index[p])}}

\* The receives the process posts: one for every other process that it
\* gets quadrants from, with recv_size bytes.
PostedReceives(pe, plan) ==
    {[src |-> from_proc, dst |-> pe.mpirank,
      num |-> plan.num_recv_from[from_proc],
      size |-> NumTreesOf(pe, from_proc) * SizeofLocidx
                  + quad_plus_data_size(pe) * plan.num_recv_from[from_proc]] :
       from_proc \in {p \in 0 .. pe.mpisize - 1 :
                        p # pe.mpirank /\ plan.num_recv_from[p] > 0}}

\* The messages when the process does not leave itself out.
PartitionMessages_ToSelf(pe, plan) ==
    {PackSendBuf(pe, plan, to_proc) :
       to_proc \in {p \in 0 .. pe.mpisize - 1 : plan.num_send_to[p] # 0}}

\* The messages of the process: one to every other process that gets
\* quadrants from it.
PartitionMessages(pe, plan) ==
    {PackSendBuf(pe, plan, to_proc) :
       to_proc \in {p \in 0 .. pe.mpisize - 1 :
                      p # pe.mpirank /\ plan.num_send_to[p] # 0}}

P4EST_TOPIDX_MAX == 2147483647

\* What entry t - first_from_tree of the count vector buf of from_proc
\* says about tree t, zero when the vector has no such entry.
PerTreeFrom(pe, buf, from_proc, t) ==
    Once({IF it >= 0 /\ it < NumTreesOf(pe, from_proc) THEN buf[it + 1]
          ELSE 0 :
          it \in {t - pe.global_first_position[from_proc].which_tree}})

\* Add the counts of from_proc to the counts of the new local trees.
CountFrom(pe, prev, buf, from_proc) ==
    Once({[new_local_tree_elem_count |->
              [t \in DOMAIN got |-> prev.new_local_tree_elem_count[t] + got[t]],
           new_local_tree_elem_count_before |->
              [t \in DOMAIN got |->
                 prev.new_local_tree_elem_count_before[t]
                    + (IF from_proc < pe.mpirank THEN got[t] ELSE 0)],
           new_first_local_tree |->
              SetMin({prev.new_first_local_tree}
                       \cup {t \in DOMAIN got : got[t] > 0}),
           new_last_local_tree |->
              -SetMin({-prev.new_last_local_tree}
                        \cup {-t : t \in {u \in DOMAIN got : got[u] > 0}})] :
          got \in {[t \in 0 .. pe.num_trees - 1 |->
                      SC_MAX(PerTreeFrom(pe, buf, from_proc, t), 0)]}})

\* The counts with the two ends of the empty range exchanged.
NewTreeCounts_EndsExchanged(pe, plan, bufs) ==
    LET acc[from_proc \in -1 .. pe.mpisize - 1] ==
           IF from_proc = -1
           THEN [new_local_tree_elem_count |->
                    [t \in 0 .. pe.num_trees - 1 |-> 0],
                 new_local_tree_elem_count_before |->
                    [t \in 0 .. pe.num_trees - 1 |-> 0],
                 new_first_local_tree |-> P4EST_TOPIDX_MAX,
                 new_last_local_tree |-> 0]
           ELSE Once({IF plan.num_recv_from[from_proc] > 0
                      THEN CountFrom(pe, prev, bufs[from_proc], from_proc)
                      ELSE prev :
                      prev \in {acc[from_proc - 1]}})
    IN Once({IF c.new_first_local_tree > c.new_last_local_tree
             THEN [c EXCEPT !.new_first_local_tree = -2,
                            !.new_last_local_tree = -1]
             ELSE c :
             c \in {acc[pe.mpisize - 1]}})

\* The number of quadrants of each tree in the repartition, how many of
\* them come from lower processes, and the new local tree range.
\* bufs[from_proc] is the count vector of from_proc: num_per_tree_local
\* for the process itself, the head of the message for the others.
NewTreeCounts(pe, plan, bufs) ==
    LET acc[from_proc \in -1 .. pe.mpisize - 1] ==
           IF from_proc = -1
           THEN [new_local_tree_elem_count |->
                    [t \in 0 .. pe.num_trees - 1 |-> 0],
                 new_local_tree_elem_count_before |->
                    [t \in 0 .. pe.num_trees - 1 |-> 0],
                 new_first_local_tree |-> P4EST_TOPIDX_MAX,
                 new_last_local_tree |-> 0]
           ELSE Once({IF plan.num_recv_from[from_proc] > 0
                      THEN CountFrom(pe, prev, bufs[from_proc], from_proc)
                      ELSE prev :
                      prev \in {acc[from_proc - 1]}})
    IN Once({IF c.new_first_local_tree > c.new_last_local_tree
             THEN [c EXCEPT !.new_first_local_tree = -1,
                            !.new_last_local_tree = -2]
             ELSE c :
             c \in {acc[pe.mpisize - 1]}})

\* The state of the fill: the trees, the payload pool with the log of the
\* handles given back, and the per-tree offsets of the copy loop.
FillState(pe) ==
    [data_size |-> pe.data_size, udp |-> pe.user_data_pool, freed |-> <<>>,
     trees |-> pe.trees,
     before |-> [t \in 0 .. pe.num_trees - 1 |-> 0]]

\* p4est_quadrant_free_data on the elements lo .. hi - 1 (from 0) of the
\* array of which_tree.
FreeRange(f, which_tree, lo, hi) ==
    LET n == SC_MAX(hi - lo, 0)
        step[k \in 0 .. n] ==
           IF k = 0 THEN f
           ELSE Once({[p4est_quadrant_free_data(
                         prev, prev.trees[which_tree].quadrants[lo + k])
                         EXCEPT !.trees[which_tree].quadrants[lo + k].ud
                                   = NULL] :
                      prev \in {step[k - 1]}})
    IN step[n]

\* The move that leaves the retained quadrants where they were.
MoveKept_InPlace(old, num_quadrants, before, sl) ==
    sc_array_resize(old, num_quadrants)

\* Resize the array to num_quadrants and move the num_copy retained
\* quadrants from tree_from_begin to the offset before.
MoveKept(old, num_quadrants, before, sl) ==
    Once({IF num_quadrants < Len(moved) THEN sc_array_resize(moved, num_quadrants)
          ELSE moved :
          moved \in {Once({[i \in DOMAIN grown |->
                              IF i - 1 >= before /\ i - 1 < before + sl.num_copy
                              THEN grown[sl.tree_from_begin + i - before]
                              ELSE grown[i]] :
                           grown \in {IF num_quadrants > Len(old)
                                      THEN sc_array_resize(old, num_quadrants)
                                      ELSE old}})}})

\* A local tree the process keeps quadrants in: free the payloads that no
\* longer belong to the process, move the retained part.
KeepPart(f, which_tree, num_quadrants, before, sl) ==
    Once({[f2 EXCEPT !.trees[which_tree].quadrants =
                        MoveKept(@, num_quadrants, before, sl)] :
          f2 \in {Once({FreeRange(f1, which_tree, sl.tree_from_end + 1,
                                  Len(f1.trees[which_tree].quadrants)) :
                        f1 \in {FreeRange(
                                  f, which_tree, 0,
                                  SC_MIN(sl.tree_from_begin,
                                         Len(f.trees[which_tree].quadrants)))}})}})

\* A local tree the process has no quadrants in any more is dropped.
DropTree(f, which_tree) ==
    Once({[f1 EXCEPT
             !.trees[which_tree] =
                [quadrants |-> <<>>,
                 quadrants_per_level |->
                    [l \in Levels |->
                       IF l <= P4EST_QMAXLEVEL THEN 0
                       ELSE f1.trees[which_tree].quadrants_per_level[l]],
                 maxlevel |-> 0,
                 first_desc |-> Quad(0, 0, 0), last_desc |-> Quad(0, 0, 0),
                 quadrants_offset |-> 0]] :
          f1 \in {FreeRange(f, which_tree, 0,
                            Len(f.trees[which_tree].quadrants))}})

\* Copy the local quadrants: the loop over first_tree .. last_tree.
CopyLocal(pe, plan, counts) ==
    LET first_tree ==
           IF pe.first_local_tree >= 0 /\ counts.new_first_local_tree >= 0
           THEN SC_MIN(pe.first_local_tree, counts.new_first_local_tree)
           ELSE SC_MAX(pe.first_local_tree, counts.new_first_local_tree)
        last_tree == SC_MAX(pe.last_local_tree, counts.new_last_local_tree)
        mine == SendRange(pe, plan, pe.mpirank)
        loop[which_tree \in first_tree - 1 .. last_tree] ==
           IF which_tree = first_tree - 1 THEN FillState(pe)
           ELSE Once({IF /\ which_tree >= pe.first_local_tree
                         /\ which_tree <= pe.last_local_tree
                      THEN IF counts.new_local_tree_elem_count[which_tree] > 0
                           THEN KeepPart(
                                  f, which_tree,
                                  counts.new_local_tree_elem_count[which_tree],
                                  counts.new_local_tree_elem_count_before[
                                     which_tree],
                                  TreeSlice(pe,
                                            plan.local_tree_last_quad_index,
                                            which_tree,
                                            mine.my_begin, mine.my_end))
                           ELSE DropTree(f, which_tree)
                      ELSE f :
                      f \in {loop[which_tree - 1]}})
    IN IF last_tree < first_tree THEN FillState(pe) ELSE loop[last_tree]

\* The copy of the received quadrants with the payload of the first one
\* for each of them.
RecvQuadrants_FirstPayload(f, m, off, from_tree, num_copy, num_quadrants) ==
    LET zoffset == f.before[from_tree]
        step[zz \in 0 .. num_copy] ==
           IF zz = 0
           THEN [f EXCEPT !.trees[from_tree].quadrants =
                             sc_array_resize(@, num_quadrants)]
           ELSE Once({IF prev.data_size > 0
                      THEN Once({[prev EXCEPT
                                    !.trees[from_tree].quadrants[zoffset + zz] =
                                       SetUd(m.quads[off + zz], h),
                                    !.udp = (h :> m.data[off + 1]) @@ @] :
                                 h \in {FreshHandle(prev.udp)}})
                      ELSE [prev EXCEPT
                              !.trees[from_tree].quadrants[zoffset + zz] =
                                 SetUd(m.quads[off + zz], NULL)] :
                      prev \in {step[zz - 1]}})
    IN step[num_copy]

\* Copy num_copy quadrants of the message m, from its offset off on, into
\* the tree from_tree behind the before[from_tree] quadrants that are in
\* place; every quadrant gets a fresh payload with the bytes of the message.
RecvQuadrants(f, m, off, from_tree, num_copy, num_quadrants) ==
    LET zoffset == f.before[from_tree]
        step[zz \in 0 .. num_copy] ==
           IF zz = 0
           THEN [f EXCEPT !.trees[from_tree].quadrants =
                             sc_array_resize(@, num_quadrants)]
           ELSE Once({IF prev.data_size > 0
                      THEN Once({[prev EXCEPT
                                    !.trees[from_tree].quadrants[zoffset + zz] =
                                       SetUd(m.quads[off + zz], h),
                                    !.udp = (h :> m.data[off + zz]) @@ @] :
                                 h \in {FreshHandle(prev.udp)}})
                      ELSE [prev EXCEPT
                              !.trees[from_tree].quadrants[zoffset + zz] =
                                 SetUd(m.quads[off + zz], NULL)] :
                      prev \in {step[zz - 1]}})
    IN step[num_copy]

\* One entry of the count vector of from_proc.
RecvTree(st, pe, counts, m, from_proc, from_tree, num_copy) ==
    IF num_copy > 0
    THEN Once({[f |-> [f1 EXCEPT !.before[from_tree] = @ + num_copy],
                off |-> st.off + num_copy] :
               f1 \in {IF pe.mpirank # from_proc
                       THEN RecvQuadrants(
                              st.f, m, st.off, from_tree, num_copy,
                              counts.new_local_tree_elem_count[from_tree])
                       ELSE st.f}})
    ELSE [f |-> st.f, off |-> st.off + num_copy]

\* Copy in what from_proc sends: buf is its count vector, m its message
\* (not read for the process itself).
RecvFrom(f, pe, counts, buf, m, from_proc) ==
    LET num_recv_trees == NumTreesOf(pe, from_proc)
        first_from_tree == pe.global_first_position[from_proc].which_tree
        step[it \in 0 .. SC_MAX(num_recv_trees, 0)] ==
           IF it = 0 THEN [f |-> f, off |-> 0]
           ELSE Once({RecvTree(st, pe, counts, m, from_proc,
                               first_from_tree + it - 1, buf[it]) :
                      st \in {step[it - 1]}})
    IN step[SC_MAX(num_recv_trees, 0)].f

\* Copy in received quadrants: the loop over from_proc.  msgs[from_proc] is
\* the message of from_proc.
CopyReceived(f, pe, plan, counts, bufs, msgs) ==
    LET loop[from_proc \in -1 .. pe.mpisize - 1] ==
           IF from_proc = -1 THEN f
           ELSE Once({IF plan.num_recv_from[from_proc] > 0
                      THEN RecvFrom(prev, pe, counts, bufs[from_proc],
                                    msgs[from_proc], from_proc)
                      ELSE prev :
                      prev \in {loop[from_proc - 1]}})
    IN loop[pe.mpisize - 1]

\* P4EST_QUADRANT_INIT (&q): the quadrant is reset.
P4EST_QUADRANT_INIT == Quad(0, 0, 0)

\* The rebuild that takes both descendants from the first quadrant.
RebuildTree_FirstOnly(tree, counts, which_tree, offset) ==
    IF /\ which_tree >= counts.new_first_local_tree
       /\ which_tree <= counts.new_last_local_tree
    THEN [tree EXCEPT
            !.quadrants_offset = offset,
            !.quadrants_per_level =
               [l \in Levels |->
                  IF l <= P4EST_QMAXLEVEL
                  THEN Cardinality({zz \in DOMAIN tree.quadrants :
                                      tree.quadrants[zz].level = l})
                  ELSE @[l]],
            !.maxlevel = MaxLevelOf(tree.quadrants),
            !.first_desc =
               p4est_quadrant_first_descendant(Bare(tree.quadrants[1]),
                                               P4EST_QMAXLEVEL),
            !.last_desc =
               p4est_quadrant_last_descendant(Bare(tree.quadrants[1]),
                                              P4EST_QMAXLEVEL)]
    ELSE [tree EXCEPT !.quadrants_offset = offset,
                      !.first_desc = P4EST_QUADRANT_INIT,
                      !.last_desc = P4EST_QUADRANT_INIT]

\* The tree which_tree when the quadrants are in place: its offset, and for
\* a tree of the new local range its counters and descendants.
RebuildTree(tree, counts, which_tree, offset) ==
    IF /\ which_tree >= counts.new_first_local_tree
       /\ which_tree <= counts.new_last_local_tree
    THEN [tree EXCEPT
            !.quadrants_offset = offset,
            !.quadrants_per_level =
               [l \in Levels |->
                  IF l <= P4EST_QMAXLEVEL
                  THEN Cardinality({zz \in DOMAIN tree.quadrants :
                                      tree.quadrants[zz].level = l})
                  ELSE @[l]],
            !.maxlevel = MaxLevelOf(tree.quadrants),
            !.first_desc =
               p4est_quadrant_first_descendant(Bare(tree.quadrants[1]),
                                               P4EST_QMAXLEVEL),
            !.last_desc =
               p4est_quadrant_last_descendant(
                  Bare(tree.quadrants[Len(tree.quadrants)]),
                  P4EST_QMAXLEVEL)]
    ELSE [tree EXCEPT !.quadrants_offset = offset,
                      !.first_desc = P4EST_QUADRANT_INIT,
                      !.last_desc = P4EST_QUADRANT_INIT]

\* The rebuild that keeps the old global index of quadrants.
PartitionRebuild_StaleIndex(pe, f, plan, counts) ==
    LET run[t \in 0 .. pe.num_trees] ==
           IF t = 0 THEN 0
           ELSE run[t - 1]
                  + (IF /\ t - 1 >= counts.new_first_local_tree
                        /\ t - 1 <= counts.new_last_local_tree
                     THEN Len(f.trees[t - 1].quadrants)
                     ELSE 0)
    IN [pe EXCEPT
          !.trees = [t \in DOMAIN f.trees |->
                       RebuildTree(f.trees[t], counts, t, run[t])],
          !.user_data_pool = f.udp,
          !.first_local_tree = counts.new_first_local_tree,
          !.last_local_tree = counts.new_last_local_tree,
          !.local_num_quadrants = run[pe.num_trees]]

\* Set the global index and count of quadrants, the local tree range and
\* the counters of every tree.
PartitionRebuild(pe, f, plan, counts) ==
    LET run[t \in 0 .. pe.num_trees] ==
           IF t = 0 THEN 0
           ELSE run[t - 1]
                  + (IF /\ t - 1 >= counts.new_first_local_tree
                        /\ t - 1 <= counts.new_last_local_tree
                     THEN Len(f.trees[t - 1].quadrants)
                     ELSE 0)
    IN [pe EXCEPT
          !.trees = [t \in DOMAIN f.trees |->
                       RebuildTree(f.trees[t], counts, t, run[t])],
          !.user_data_pool = f.udp,
          !.global_first_quadrant =
             [i \in DOMAIN @ |->
                IF i = 0 THEN @[0]
                ELSE plan.new_global_last_quad_index[i - 1] + 1],
          !.first_local_tree = counts.new_first_local_tree,
          !.last_local_tree = counts.new_last_local_tree,
          !.local_num_quadrants = run[pe.num_trees]]

\* The code between the two blocking points: fill in the forest from the
\* local trees and the messages msgs[from_proc].  The handles of the
\* payloads given back are logged in freed.
PartitionFill(pe, plan, msgs) ==
    Once({Once({Once({[pe |-> PartitionRebuild(pe, f, plan, counts),
                       freed |-> f.freed] :
                      f \in {CopyReceived(CopyLocal(pe, plan, counts), pe,
                                          plan, counts, bufs, msgs)}}) :
                counts \in {NewTreeCounts(pe, plan, bufs)}}) :
          bufs \in {[from_proc \in 0 .. pe.mpisize - 1 |->
                       IF from_proc = pe.mpirank
                       THEN num_per_tree_local(pe, plan)
                       ELSE IF from_proc \in DOMAIN msgs
                       THEN msgs[from_proc].num_per_tree
                       ELSE <<>>]}})

\* p4est_comm_global_partition: what the process contributes, its first
\* local quadrant, or negative values without quadrants.
FirstPosition(pe) ==
    IF pe.first_local_tree < 0 THEN Position(-1, -1, -1)
    ELSE Position(pe.first_local_tree,
                  pe.trees[pe.first_local_tree].quadrants[1].x,
                  pe.trees[pe.first_local_tree].quadrants[1].y)

\* p4est_comm_global_partition: the table from the contributions of all
\* processes; a process without quadrants gets the entry of its successor.
p4est_comm_global_partition(pe, input) ==
    LET gfp[k \in 0 .. pe.mpisize] ==
           \* the entry of process mpisize - k
           IF k = 0 THEN Position(pe.num_trees, 0, 0)
           ELSE IF input[pe.mpisize - k].which_tree < 0 THEN gfp[k - 1]
           ELSE input[pe.mpisize - k]
    IN [pe EXCEPT !.global_first_position =
                     [i \in 0 .. pe.mpisize |-> gfp[pe.mpisize - i]]]

(***************************************************************************)
(* p4est_tree_compute_overlap                                              *)
(*                                                                         *)
(* A quadrant of the array in carries piggy2 in its payload slot: a record *)
(* of which_tree and from_tree.  A quadrant of the array out carries the   *)
(* tree it goes to.  The connectivity conn gives, for a tree and a face,   *)
(* the neighbour tree and the shift into its frame, and for a tree and a   *)
(* corner the array of corner neighbours, each with its tree and corner.   *)
(***************************************************************************)
P4EST_INSUL == 9

\* which face of the center quad touches this insul
insul_to_f == <<-1, 2, -1, 0, -1, 1, -1, 3, -1>>

\* which corner of the center quad touches this insul
insul_to_c == <<0, -1, 1, -1, -1, -1, 2, -1, 3>>

Piggy2(which_tree, from_tree) ==
    [which_tree |-> which_tree, from_tree |-> from_tree]

\* p4est_find_lower_bound: the lowest index (from 0) of a quadrant that is
\* not less than q, or -1.
p4est_find_lower_bound(s, q) ==
    LET at == {i \in DOMAIN s : p4est_quadrant_compare(s[i], q) >= 0}
    IN IF at = {} THEN -1 ELSE SetMin(at) - 1

\* p4est_find_higher_bound: the highest index (from 0) of a quadrant that
\* is not greater than q, or -1.
p4est_find_higher_bound(s, q) ==
    LET at == {i \in DOMAIN s : p4est_quadrant_compare(s[i], q) <= 0}
    IN IF at = {} THEN -1 ELSE (CHOOSE m \in at : \A i \in at : i <= m) - 1

\* p4est_quadrant_transform_face for a join without rotation: the shift
\* into the frame of the neighbour.
p4est_quadrant_transform_face(q, ftransform) ==
    [q EXCEPT !.x = @ + ftransform.dx, !.y = @ + ftransform.dy]

\* p4est_quadrant_transform_corner: the quadrant of the level of q at the
\* corner, inside or outside of the root.
p4est_quadrant_transform_corner(q, corner, inside) ==
    LET shift0 == IF inside THEN 0 ELSE - P4EST_QUADRANT_LEN(q.level)
        shift1 == IF inside
                  THEN P4EST_ROOT_LEN - P4EST_QUADRANT_LEN(q.level)
                  ELSE P4EST_ROOT_LEN
    IN [q EXCEPT !.x = IF corner % 2 = 1 THEN shift1 ELSE shift0,
                 !.y = IF (corner \div 2) % 2 = 1 THEN shift1 ELSE shift0]

\* p4est_quadrant_shift_corner: the smallest ancestor-sized quadrant that
\* touches the corner of the root and stands for q in a corner balance.
RECURSIVE p4est_quadrant_shift_corner(_, _)
p4est_quadrant_shift_corner(q, corner) ==
    LET th == P4EST_ROOT_LEN - P4EST_QUADRANT_LEN(q.level)
        step0 == 2 * (corner % 2) - 1
        step1 == 2 * ((corner \div 2) % 2) - 1
        r == p4est_quadrant_sibling(q, corner)
        touches == /\ (corner % 2 = 0) = (r.x <= 0)
                   /\ (corner % 2 = 1) = (r.x >= th)
                   /\ ((corner \div 2) % 2 = 0) = (r.y <= 0)
                   /\ ((corner \div 2) % 2 = 1) = (r.y >= th)
        up == p4est_quadrant_parent(q)
    IN IF touches \/ q.level = 0
       THEN [r EXCEPT !.x = IF @ < 0 THEN 0
                            ELSE IF @ >= P4EST_ROOT_LEN THEN th ELSE @,
                      !.y = IF @ < 0 THEN 0
                            ELSE IF @ >= P4EST_ROOT_LEN THEN th ELSE @]
       ELSE p4est_quadrant_shift_corner(
               [up EXCEPT !.x = @ + step0 * P4EST_QUADRANT_LEN(up.level),
                          !.y = @ + step1 * P4EST_QUADRANT_LEN(up.level)],
               corner)

\* The situation of an input quadrant: inside the root, or outside across
\* one face or one corner, with what the connectivity says of it.
OverlapContact(conn, inq) ==
    LET qtree == inq.ud.which_tree
        outface == <<inq.x < 0, inq.x >= P4EST_ROOT_LEN,
                     inq.y < 0, inq.y >= P4EST_ROOT_LEN>>
        face_axis0 == outface[1] \/ outface[2]
        face_axis1 == outface[3] \/ outface[4]
        face == IF ~ face_axis1 THEN 0 + (IF outface[2] THEN 1 ELSE 0)
                ELSE 2 + (IF outface[4] THEN 1 ELSE 0)
        corner == (IF outface[2] THEN 1 ELSE 0)
                     + 2 * (IF outface[4] THEN 1 ELSE 0)
    IN IF p4est_quadrant_is_inside_root(inq)
       THEN [inter_tree |-> FALSE, contact_face_only |-> FALSE,
             face |-> -1, corner |-> -1, ntree |-> -1,
             ftransform |-> [dx |-> 0, dy |-> 0], cta |-> <<>>]
       ELSE IF ~ face_axis1 \/ ~ face_axis0
       THEN [inter_tree |-> TRUE, contact_face_only |-> TRUE,
             face |-> face, corner |-> -1,
             ntree |-> conn.face[qtree][face].ntree,
             ftransform |-> conn.face[qtree][face], cta |-> <<>>]
       ELSE [inter_tree |-> TRUE, contact_face_only |-> FALSE,
             face |-> -1, corner |-> corner, ntree |-> -1,
             ftransform |-> [dx |-> 0, dy |-> 0],
             cta |-> conn.corner[qtree][corner]]

\* The insulation quadrant which of inq.
Insulation(inq, which) ==
    LET qh == P4EST_QUADRANT_LEN(inq.level)
        k == which \div 3
        l == which % 3
    IN [inq EXCEPT !.x = @ + (l - 1) * qh, !.y = @ + (k - 1) * qh]

\* The indices (from 0) of the first and of the last quadrant of
\* tquadrants between the first and the last descendant of s; skip when
\* s is outside of the tree or nothing is between.
OverlapRange(tquadrants, treefd, treeld, s) ==
    LET fd == p4est_quadrant_first_descendant(s, P4EST_QMAXLEVEL)
        ld == p4est_quadrant_last_descendant(s, P4EST_QMAXLEVEL)
        treecount == Len(tquadrants)
        first_index == IF p4est_quadrant_compare(fd, treefd) <= 0 THEN 0
                       ELSE p4est_find_lower_bound(tquadrants, s)
        last_index == IF p4est_quadrant_compare(treeld, ld) <= 0
                      THEN treecount - 1
                      ELSE p4est_find_higher_bound(tquadrants, ld)
    IN IF \/ s.x < 0 \/ s.x >= P4EST_ROOT_LEN
          \/ s.y < 0 \/ s.y >= P4EST_ROOT_LEN
       THEN [skip |-> TRUE, first_index |-> 0, last_index |-> -1]
       ELSE IF \/ p4est_quadrant_compare(ld, treefd) < 0
               \/ p4est_quadrant_compare(treeld, fd) < 0
       THEN [skip |-> TRUE, first_index |-> 0, last_index |-> -1]
       ELSE IF first_index < 0
       THEN [skip |-> TRUE, first_index |-> 0, last_index |-> -1]
       ELSE [skip |-> first_index > last_index,
             first_index |-> first_index, last_index |-> last_index]

\* p4est_balance_face_test and p4est_balance_corner_test: the seeds that
\* inq must be refined to for the leaf tq of its insulation, none when the
\* two are balanced.  The seed is the quadrant below inq next to tq, one
\* level above tq; the deep test takes leaves two levels finer as balanced
\* and returns the seed and its parent's first child.
p4est_balance_test(tq, inq, oracle) ==
    LET l == tq.level - 1
        qh == P4EST_QUADRANT_LEN(inq.level)
        h == P4EST_QUADRANT_LEN(l)
        Clamp(c, lo) == IF c < lo THEN lo
                        ELSE IF c > lo + qh - h THEN lo + qh - h ELSE c
        u == Quad(Clamp(Truncate(tq.x, l), inq.x),
                  Clamp(Truncate(tq.y, l), inq.y), l)
    IN IF tq.level <= inq.level + 1 THEN <<>>
       ELSE IF oracle = "near" THEN <<u>>
       ELSE IF tq.level <= inq.level + 2 THEN <<>>
       ELSE <<u, p4est_quadrant_sibling(u, 0)>>

\* What the new mode puts in out for the seed u of the input quadrant inq.
OverlapSeed_EveryCorner(u, inq, ct) ==
    LET corners == [i \in DOMAIN ct.cta |->
                      SetUd(p4est_quadrant_sibling(
                               p4est_quadrant_transform_corner(
                                  u, ct.cta[i].ncorner, TRUE), 0),
                            ct.cta[i].ntree)]
    IN IF ct.inter_tree /\ ct.contact_face_only
       THEN <<SetUd(p4est_quadrant_sibling(
                       p4est_quadrant_transform_face(u, ct.ftransform), 0),
                    ct.ntree)>>
       ELSE IF ct.inter_tree THEN corners
       ELSE <<SetUd(p4est_quadrant_sibling(u, 0), inq.ud.which_tree)>>

OverlapSeed(u, inq, ct) ==
    LET ftree == inq.ud.from_tree
        corners[i \in 0 .. Len(ct.cta)] ==
           IF i = 0 THEN <<>>
           ELSE IF ct.cta[i].ntree = ftree
           THEN Append(corners[i - 1],
                       SetUd(p4est_quadrant_sibling(
                                p4est_quadrant_transform_corner(
                                   u, ct.cta[i].ncorner, TRUE), 0),
                             ct.cta[i].ntree))
           ELSE corners[i - 1]
    IN IF ct.inter_tree /\ ct.contact_face_only
       THEN <<SetUd(p4est_quadrant_sibling(
                       p4est_quadrant_transform_face(u, ct.ftransform), 0),
                    ct.ntree)>>
       ELSE IF ct.inter_tree THEN corners[Len(ct.cta)]
       ELSE <<SetUd(p4est_quadrant_sibling(u, 0), inq.ud.which_tree)>>

\* The new mode on the quadrants first_index .. last_index of tquadrants
\* for the insulation quadrant which: out grows by the seeds, tests by the
\* tests that asked for a split.
OverlapNew(st, tquadrants, rg, inq, iz, which, ct, oracle) ==
    LET c == insul_to_c[which + 1]
        loop[js \in (rg.first_index - 1) .. rg.last_index] ==
           IF js = rg.first_index - 1
           THEN [out |-> st.out, tests |-> st.tests,
                 level |-> inq.level + 1]
           ELSE Once({
                  IF tq.level <= prev.level THEN prev
                  ELSE Once({
                         IF seeds = <<>> THEN prev
                         ELSE LET put[jz \in 0 .. Len(seeds)] ==
                                     IF jz = 0 THEN prev.out
                                     ELSE put[jz - 1]
                                             \o OverlapSeed(seeds[jz], inq, ct)
                                  deepest == MaxLevelOf(seeds)
                              IN [out |-> put[Len(seeds)],
                                  tests |-> Append(prev.tests,
                                                   [iz |-> iz, which |-> which,
                                                    tq |-> Bare(tq),
                                                    seeds |-> seeds]),
                                  level |-> IF c >= 0
                                            THEN SC_MAX(prev.level, deepest)
                                            ELSE prev.level] :
                         seeds \in {p4est_balance_test(Bare(tq), Bare(inq),
                                                       oracle)}}) :
                  prev \in {loop[js - 1]}, tq \in {tquadrants[js + 1]}})
    IN [st EXCEPT !.out = loop[rg.last_index].out,
                  !.tests = loop[rg.last_index].tests]

\* The legacy mode across a corner: the level of the smallest quadrant,
\* shifted to the corner, goes to every corner neighbour.
OverlapLegacyCorner(st, tquadrants, rg, inq, ct) ==
    LET find[js \in (rg.first_index - 1) .. rg.last_index] ==
           IF js = rg.first_index - 1 THEN 0
           ELSE Once({
                  IF tq.level <= SC_MAX(level, inq.level + 1) THEN level
                  ELSE SC_MAX(level,
                              p4est_quadrant_shift_corner(Bare(tq),
                                                          ct.corner).level) :
                  level \in {find[js - 1]}, tq \in {tquadrants[js + 1]}})
        level == find[rg.last_index]
    IN IF level > 0
       THEN [st EXCEPT
               !.out = @ \o [i \in DOMAIN ct.cta |->
                               SetUd(p4est_quadrant_transform_corner(
                                        Quad(0, 0, level),
                                        ct.cta[i].ncorner, FALSE),
                                     ct.cta[i].ntree)]]
       ELSE st

\* The legacy mode across a face and inside the tree, from the second
\* quadrant of the range.
OverlapLegacy_FromSecond(st, tquadrants, rg, inq, ct) ==
    LET small == {js \in (rg.first_index + 1) .. rg.last_index :
                    tquadrants[js + 1].level > inq.level + 1}
        copy[js \in (rg.first_index - 1) .. rg.last_index] ==
           IF js = rg.first_index - 1 THEN <<>>
           ELSE IF js \notin small THEN copy[js - 1]
           ELSE Append(copy[js - 1],
                       IF ct.inter_tree
                       THEN SetUd(p4est_quadrant_transform_face(
                                     tquadrants[js + 1], ct.ftransform),
                                  ct.ntree)
                       ELSE SetUd(tquadrants[js + 1], inq.ud.which_tree))
    IN [st EXCEPT !.out = @ \o copy[rg.last_index]]

\* The legacy mode across a face and inside the tree: the quadrants more
\* than one level below inq go to out.
OverlapLegacy(st, tquadrants, rg, inq, ct) ==
    LET small == {js \in rg.first_index .. rg.last_index :
                    tquadrants[js + 1].level > inq.level + 1}
        copy[js \in (rg.first_index - 1) .. rg.last_index] ==
           IF js = rg.first_index - 1 THEN <<>>
           ELSE IF js \notin small THEN copy[js - 1]
           ELSE Append(copy[js - 1],
                       IF ct.inter_tree
                       THEN SetUd(p4est_quadrant_transform_face(
                                     tquadrants[js + 1], ct.ftransform),
                                  ct.ntree)
                       ELSE SetUd(tquadrants[js + 1], inq.ud.which_tree))
    IN [st EXCEPT !.out = @ \o copy[rg.last_index]]

\* One insulation quadrant of the input quadrant iz.
OverlapInsulation(st, pe, tquadrants, inq, iz, which, ct, new, oracle) ==
    LET tree == pe.trees[inq.ud.which_tree]
    IN IF which = P4EST_INSUL \div 2 THEN st
       ELSE Once({
              IF rg.skip THEN st
              ELSE IF new
              THEN OverlapNew(st, tquadrants, rg, inq, iz, which, ct, oracle)
              ELSE IF ct.inter_tree /\ ct.corner >= 0
              THEN OverlapLegacyCorner(st, tquadrants, rg, inq, ct)
              ELSE OverlapLegacy(st, tquadrants, rg, inq, ct) :
              rg \in {OverlapRange(tquadrants, tree.first_desc,
                                   tree.last_desc,
                                   Insulation(inq, which))}})

\* borders == NULL: the leaves of the trees are searched.
NoBorders == <<>>

\* The result: out, and the balance tests that asked for a split.
p4est_tree_compute_overlap_internal(pe, conn, in, new, oracle, borders) ==
    LET Quadrants(qtree) ==
           IF borders = NoBorders THEN pe.trees[qtree].quadrants
           ELSE borders[qtree - pe.first_local_tree + 1]
        loop[n \in 0 .. Len(in) * P4EST_INSUL] ==
           IF n = 0 THEN [out |-> <<>>, tests |-> <<>>]
           ELSE Once({OverlapInsulation(
                        st, pe, Quadrants(inq.ud.which_tree), inq,
                        (n - 1) \div P4EST_INSUL, (n - 1) % P4EST_INSUL,
                        OverlapContact(conn, inq), new, oracle) :
                      st \in {loop[n - 1]},
                      inq \in {in[((n - 1) \div P4EST_INSUL) + 1]}})
    IN loop[Len(in) * P4EST_INSUL]

p4est_tree_compute_overlap_new(pe, conn, in, oracle, borders) ==
    p4est_tree_compute_overlap_internal(pe, conn, in, TRUE, oracle, borders)

p4est_tree_compute_overlap(pe, conn, in) ==
    p4est_tree_compute_overlap_internal(pe, conn, in, FALSE, "near", NoBorders)

(***************************************************************************)
(* The checks of trees and forests.                                        *)
(***************************************************************************)

\* sc_array_is_sorted: no element compares greater than its successor.
sc_array_is_sorted(s, fn) ==
    \A i \in 1 .. Len(s) - 1 : Cmp(fn, s[i], s[i + 1]) <= 0

\* The faces of the root a quadrant lies outside of, as a bit mask.
FaceContact(q) ==
    (IF q.x < 0 THEN 1 ELSE 0) + (IF q.x >= P4EST_ROOT_LEN THEN 2 ELSE 0)
       + (IF q.y < 0 THEN 4 ELSE 0) + (IF q.y >= P4EST_ROOT_LEN THEN 8 ELSE 0)

\* p4est_tree_is_almost_sorted: strictly increasing, but for quadrants
\* outside the same corner of the root, which may overlap.
p4est_tree_is_almost_sorted(s, check_linearity) ==
    \A iz \in 1 .. Len(s) - 1 :
       LET q1 == s[iz]
           q2 == s[iz + 1]
           face_contact1 == FaceContact(q1)
           face_contact2 == FaceContact(q2)
           out_axis0 == face_contact2 % 4
           out_axis1 == face_contact2 \div 4
       IN \/ out_axis0 # 0 /\ out_axis1 # 0 /\ face_contact1 = face_contact2
          \/ /\ p4est_quadrant_compare(q1, q2) < 0
             /\ ~ (check_linearity /\ p4est_quadrant_is_ancestor(q1, q2))

\* p4est_tree_is_complete: every leaf is followed by its successor.
p4est_tree_is_complete(s) ==
    \A i \in 1 .. Len(s) - 1 : p4est_quadrant_is_next(s[i], s[i + 1])

\* The sum of the counters of the levels 0 .. P4EST_QMAXLEVEL.
CountedQuadrants(quadrants_per_level) ==
    LET sum[i \in -1 .. P4EST_QMAXLEVEL] ==
           IF i = -1 THEN 0 ELSE sum[i - 1] + quadrants_per_level[i]
    IN sum[P4EST_QMAXLEVEL]

\* The check of the sum of the counters alone.
TreeCountsValid_SumOnly(tree) ==
    CountedQuadrants(tree.quadrants_per_level) = Len(tree.quadrants)

\* The checks of the counters of a tree: maxlevel is the last level with a
\* positive counter and the counters add up to the number of leaves.
TreeCountsValid(tree) ==
    /\ MaxCountedLevel(tree.quadrants_per_level) = tree.maxlevel
    /\ CountedQuadrants(tree.quadrants_per_level) = Len(tree.quadrants)

\* p4est_is_valid, the part of one process: the checks of the first and
\* of the last local tree against the partition, of every tree, and of the
\* counts of the forest.
p4est_is_valid(pe) ==
    LET rank == pe.mpirank
        first_tree == pe.first_local_tree
        last_tree == pe.last_local_tree
        gfp == pe.global_first_position
        mh == P4EST_QUADRANT_LEN(P4EST_QMAXLEVEL)
        next_tree == gfp[rank + 1].which_tree
        nextlow == [x |-> gfp[rank + 1].x, y |-> gfp[rank + 1].y,
                    level |-> P4EST_QMAXLEVEL, ud |-> NULL]
        lquadrants[jt \in 0 .. pe.num_trees] ==
           IF jt = 0 THEN 0
           ELSE lquadrants[jt - 1]
                   + CountedQuadrants(pe.trees[jt - 1].quadrants_per_level)
    IN /\ IF first_tree < 0 THEN first_tree = -1 /\ last_tree = -2
          ELSE /\ gfp[rank].which_tree = first_tree
               /\ LET tq == pe.trees[first_tree].quadrants
                  IN Len(tq) > 0 =>
                        tq[1].x = gfp[rank].x /\ tq[1].y = gfp[rank].y
       /\ IF last_tree < 0 THEN first_tree = -1 /\ last_tree = -2
          ELSE /\ next_tree = last_tree \/ next_tree = last_tree + 1
               /\ next_tree = last_tree + 1 =>
                     nextlow.x = 0 /\ nextlow.y = 0
               /\ LET tq == pe.trees[last_tree].quadrants
                      s == p4est_quadrant_last_descendant(tq[Len(tq)],
                                                          P4EST_QMAXLEVEL)
                  IN Len(tq) > 0 =>
                        IF next_tree = last_tree
                        THEN p4est_quadrant_is_next(tq[Len(tq)], nextlow)
                        ELSE /\ s.x + mh = P4EST_ROOT_LEN
                             /\ s.y + mh = P4EST_ROOT_LEN
       /\ \A jt \in 0 .. pe.num_trees - 1 :
             LET tree == pe.trees[jt]
                 tq == tree.quadrants
             IN /\ tree.quadrants_offset = lquadrants[jt]
                /\ p4est_tree_is_complete(tq)
                /\ IF Len(tq) > 0
                   THEN /\ jt >= first_tree /\ jt <= last_tree
                        /\ p4est_quadrant_is_equal(
                              p4est_quadrant_first_descendant(
                                 tq[1], P4EST_QMAXLEVEL),
                              tree.first_desc)
                        /\ p4est_quadrant_is_equal(
                              p4est_quadrant_last_descendant(
                                 tq[Len(tq)], P4EST_QMAXLEVEL),
                              tree.last_desc)
                   ELSE /\ tree.first_desc.level = Quad(0, 0, 0).level
                        /\ tree.last_desc.level = Quad(0, 0, 0).level
                /\ TreeCountsValid(tree)
       /\ lquadrants[pe.num_trees] = pe.local_num_quadrants
       /\ pe.global_first_quadrant[0] = 0
       /\ pe.global_first_quadrant[pe.mpisize] = pe.global_num_quadrants

(***************************************************************************)
(* Forests.                                                                *)
(***************************************************************************)

\* The valid quadrants of a tree: aligned, inside the root, level at most
\* P4EST_QMAXLEVEL.
ValidQuads ==
    UNION {{Quad(i * P4EST_QUADRANT_LEN(l), j * P4EST_QUADRANT_LEN(l), l) :
              i \in 0 .. (2 ^ l - 1), j \in 0 .. (2 ^ l - 1)} :
           l \in 0 .. P4EST_QMAXLEVEL}

\* A forest of one process that owns its num_trees trees wholly.
SerialForest(num_trees, data_size, trees, pool) ==
    [mpisize |-> 1, mpirank |-> 0, num_trees |-> num_trees,
     data_size |-> data_size,
     trees |-> trees,
     first_local_tree |-> 0, last_local_tree |-> num_trees - 1,
     user_data_pool |-> pool, quadrant_pool |-> 0,
     global_first_position |->
        [i \in 0 .. 1 |-> IF i = 0 THEN Position(0, 0, 0)
                          ELSE Position(num_trees, 0, 0)]]

\* A tree that holds the leaf array s, its counters in order.
TreeOf(s) ==
    [quadrants |-> s,
     quadrants_per_level |->
        [l \in Levels |->
           IF l <= P4EST_QMAXLEVEL
           THEN Cardinality({i \in DOMAIN s : s[i].level = l})
           ELSE ZeroLevels[l]],
     maxlevel |-> MaxLevelOf(s),
     first_desc |-> IF s = <<>> THEN Quad(0, 0, 0)
                    ELSE p4est_quadrant_first_descendant(Bare(s[1]),
                                                         P4EST_QMAXLEVEL),
     last_desc |-> IF s = <<>> THEN Quad(0, 0, 0)
                   ELSE p4est_quadrant_last_descendant(Bare(s[Len(s)]),
                                                       P4EST_QMAXLEVEL),
     quadrants_offset |-> 0]

NoCall == [name |-> "none"]

Idle == <<>>

(***************************************************************************)
(* Specification SpecRegion: p4est_complete_region on an empty tree.       *)
(***************************************************************************)
InitRegion ==
    /\ \E ds \in {0, 1} :
          p4est = [r \in {0} |->
                     SerialForest(1, ds, [t \in {0} |-> EmptyTree], <<>>)]
    /\ call = NoCall
    /\ pc = Idle
    /\ loc = Idle
    /\ net = {}

CompleteRegion ==
    /\ call.name = "none"
    /\ p4est[0].trees[0].quadrants = <<>>
    /\ \E a \in ValidQuads, b \in ValidQuads,
          include_a \in BOOLEAN, include_b \in BOOLEAN,
          init_fn \in {NULL, UserInit} :
       /\ p4est_quadrant_compare(a, b) < 0
       /\ \E w \in {p4est_complete_region(p4est[0], a, include_a, b, include_b,
                                         0, init_fn)} :
             /\ p4est' = [p4est EXCEPT ![0] = Store(@, 0, w)]
             /\ call' = [name |-> "complete_region", rank |-> 0,
                         which_tree |-> 0,
                         q1 |-> a, q2 |-> b,
                         include_q1 |-> include_a, include_q2 |-> include_b,
                         init_fn |-> init_fn,
                         before |-> p4est[0],
                         inits |-> w.inits, freed |-> w.freed]
       /\ UNCHANGED <<pc, loc, net>>

NextRegion == CompleteRegion

SpecRegion == InitRegion /\ [][NextRegion]_vars

(***************************************************************************)
(* Specification SpecTree: p4est_complete_subtree and                      *)
(* p4est_balance_subtree on a wholly owned tree whose leaf array is        *)
(* sorted, called one after the other.                                     *)
(***************************************************************************)
MaxIn == 2

MaxCalls == 2

\* The strictly sorted arrays of 1 .. MaxIn valid quadrants.
SortedInputs ==
    UNION {{s \in [1 .. n -> ValidQuads] :
              \A i \in 1 .. n - 1 : p4est_quadrant_compare(s[i], s[i + 1]) < 0} :
           n \in 1 .. MaxIn}

\* A forest of one process and one tree that holds the leaves s, each with
\* its payload when the forest has payloads.
InputForest(s, data_size) ==
    SerialForest(
       1, data_size,
       [t \in {0} |->
          TreeOf([i \in DOMAIN s |->
                    SetUd(s[i], IF data_size > 0 THEN i ELSE NULL)])],
       IF data_size > 0 THEN [i \in DOMAIN s |-> InitValue(0, s[i])]
       ELSE <<>>)

InitTree ==
    /\ \E s \in SortedInputs :
          p4est = [r \in {0} |-> InputForest(s, 1)]
    /\ call = [name |-> "none", n |-> 0]
    /\ pc = Idle
    /\ loc = Idle
    /\ net = {}

\* The record of a call on the tree: its arguments, the forest on entry,
\* what it did to the pools, and the call before it.
TreeCall(name, btype, init_fn, w) ==
    [name |-> name, n |-> call.n + 1, rank |-> 0, which_tree |-> 0,
     btype |-> btype, init_fn |-> init_fn,
     before |-> p4est[0], inits |-> w.inits, freed |-> w.freed,
     ret |-> w.ret,
     prev |-> [name |-> call.name,
               btype |-> IF call.name = "none" THEN 0 ELSE call.btype]]

CompleteSubtree ==
    /\ call.n < MaxCalls
    /\ \E w \in {p4est_complete_subtree(Work(p4est[0], 0), p4est[0], 0,
                                        UserInit)} :
          /\ p4est' = [p4est EXCEPT ![0] = Store(@, 0, w)]
          /\ call' = TreeCall("complete_subtree", 0, UserInit, w)
    /\ UNCHANGED <<pc, loc, net>>

BalanceSubtree ==
    /\ call.n < MaxCalls
    /\ \E btype \in {P4EST_CONNECT_FACE, P4EST_CONNECT_FULL} :
       \E w \in {p4est_balance_subtree(Work(p4est[0], 0), p4est[0], btype, 0,
                                       UserInit)} :
          /\ p4est' = [p4est EXCEPT ![0] = Store(@, 0, w)]
          /\ call' = TreeCall("balance_subtree", btype, UserInit, w)
    /\ UNCHANGED <<pc, loc, net>>

NextTree == CompleteSubtree \/ BalanceSubtree

SpecTree == InitTree /\ [][NextTree]_vars

(***************************************************************************)
(* Specification SpecSweep: p4est_complete_or_balance on a wholly owned    *)
(* tree, one step for each level of the bottom-up walk and one for the     *)
(* merge.  loc holds the level l of the loop and the temporary storage.    *)
(***************************************************************************)
InitSweep ==
    /\ \E s \in SortedInputs :
          p4est = [r \in {0} |-> InputForest(s, 1)]
    /\ call = [name |-> "none", n |-> 0]
    /\ pc = Idle
    /\ loc = [phase |-> "idle"]
    /\ net = {}

\* Entry: the storage is set up, l = inmaxl.
SweepEnter ==
    /\ loc.phase = "idle"
    /\ \E balance \in 0 .. 2 :
       \E w \in {Work(p4est[0], 0)} :
          loc' = [phase |-> "walk", balance |-> balance, w |-> w,
                  l |-> w.maxlevel, b |-> BalanceStart(w)]
    /\ UNCHANGED <<p4est, call, pc, net>>

\* One turn of the loop for (l = inmaxl; l > 0; --l).
SweepLevel ==
    /\ loc.phase = "walk"
    /\ loc.l > 0
    /\ loc' = [loc EXCEPT
                 !.b = BalanceLevel(loc.b, loc.w.quadrants, loc.l,
                                    loc.balance),
                 !.l = @ - 1]
    /\ UNCHANGED <<p4est, call, pc, net>>

\* The loop is over: merge, sort, remove, linearize, return.
SweepMerge ==
    /\ loc.phase = "walk"
    /\ loc.l = 0
    /\ \E w \in {BalanceReduce(
                   BalanceMergeLevels(loc.w, loc.b, 0, UserInit),
                   p4est[0], 0)} :
          /\ p4est' = [p4est EXCEPT ![0] = Store(@, 0, w)]
          /\ call' = [name |-> "complete_or_balance", n |-> 1,
                      balance |-> loc.balance, before |-> p4est[0],
                      inits |-> w.inits, freed |-> w.freed]
    /\ loc' = [loc EXCEPT !.phase = "done"]
    /\ UNCHANGED <<pc, net>>

NextSweep == SweepEnter \/ SweepLevel \/ SweepMerge

SpecSweep == InitSweep /\ [][NextSweep]_vars

(***************************************************************************)
(* Specification SpecPart: p4est_partition_given on a forest of NumTrees   *)
(* trees distributed over NumProcs processes.  Every process runs the      *)
(* function with the same array; the processes take their steps in any     *)
(* order.                                                                  *)
(***************************************************************************)
NumProcs == 3

NumTrees == 2

MaxLeaves == 5

MaxPartitions == 2

Ranks == 0 .. NumProcs - 1

\* The leaves of a tree: the root, or its four children.
TreeShapes == {<<Quad(0, 0, 0)>>, p4est_quadrant_children(Quad(0, 0, 0))}

\* The leaves of the forest in global order, each with its tree.
GlobalLeaves(shape) ==
    LET cat[t \in -1 .. NumTrees - 1] ==
           IF t = -1 THEN <<>>
           ELSE cat[t - 1] \o [i \in DOMAIN shape[t] |->
                                 [which_tree |-> t, quad |-> shape[t][i]]]
    IN cat[NumTrees - 1]

\* The arrays of num_procs counts that add up to n.
Counts(num_procs, n) ==
    {c \in [0 .. num_procs - 1 -> 0 .. n] :
       LET sum[i \in -1 .. num_procs - 1] ==
              IF i = -1 THEN 0 ELSE sum[i - 1] + c[i]
       IN sum[num_procs - 1] = n}

\* The prefix sums of the counts c: global_first_quadrant.
FirstQuadrants(c, num_procs) ==
    LET sum[i \in 0 .. num_procs] ==
           IF i = 0 THEN 0 ELSE sum[i - 1] + c[i - 1]
    IN [i \in 0 .. num_procs |-> sum[i]]

\* The forest of process rank when the leaves G are distributed with the
\* counts c: the leaves gfq[rank] .. gfq[rank + 1] - 1, each with a payload
\* of its own when data_size > 0.
LocalForest(G, c, rank, data_size) ==
    LET gfq == FirstQuadrants(c, NumProcs)
        own == SubSeq(G, gfq[rank] + 1, gfq[rank + 1])
        at(t) == {k \in DOMAIN own : own[k].which_tree = t}
        leaves(t) ==
           [i \in 1 .. Cardinality(at(t)) |->
              SetUd(own[SetMin(at(t)) + i - 1].quad,
                    IF data_size > 0 THEN SetMin(at(t)) + i - 1 ELSE NULL)]
        before(t) == Cardinality({k \in DOMAIN own : own[k].which_tree < t})
    IN [mpisize |-> NumProcs, mpirank |-> rank, num_trees |-> NumTrees,
        data_size |-> data_size,
        trees |-> [t \in 0 .. NumTrees - 1 |->
                     [TreeOf(leaves(t)) EXCEPT !.quadrants_offset = before(t)]],
        first_local_tree |-> IF own = <<>> THEN -1 ELSE own[1].which_tree,
        last_local_tree |-> IF own = <<>> THEN -2
                            ELSE own[Len(own)].which_tree,
        user_data_pool |->
           IF data_size > 0
           THEN [k \in DOMAIN own |-> InitValue(own[k].which_tree, own[k].quad)]
           ELSE <<>>,
        quadrant_pool |-> 0,
        local_num_quadrants |-> Len(own),
        global_num_quadrants |-> Len(G),
        global_first_quadrant |-> gfq,
        global_first_position |-> <<>>]

\* The distributed forest: every process with the table of first positions
\* that p4est_comm_global_partition gathers.
DistributedForest(G, c, data_size) ==
    LET local == [r \in Ranks |-> LocalForest(G, c, r, data_size)]
        input == [r \in Ranks |-> FirstPosition(local[r])]
    IN [r \in Ranks |-> p4est_comm_global_partition(local[r], input)]

InitPart ==
    /\ \E shape \in [0 .. NumTrees - 1 -> TreeShapes] :
       \E G \in {GlobalLeaves(shape)} :
          /\ Len(G) <= MaxLeaves
          /\ \E c \in Counts(NumProcs, Len(G)) :
                p4est = DistributedForest(G, c, 1)
    /\ call = [name |-> "none", n |-> 0]
    /\ pc = [r \in Ranks |-> "idle"]
    /\ loc = [r \in Ranks |-> Idle]
    /\ net = {}

\* The caller: every process calls p4est_partition_given with the array
\* new_num_quadrants_in_proc.
PartitionGivenCall ==
    /\ call.n < MaxPartitions
    /\ \A r \in Ranks : pc[r] = "idle"
    /\ \E nn \in Counts(NumProcs, p4est[0].global_num_quadrants) :
          call' = [name |-> "partition_given", n |-> call.n + 1,
                   new_num_quadrants_in_proc |-> nn,
                   before |-> p4est,
                   sent |-> {},
                   recv |-> {},
                   freed |-> [r \in Ranks |-> <<>>],
                   ret |-> [r \in Ranks |-> -1]]
    /\ pc' = [r \in Ranks |-> "enter"]
    /\ UNCHANGED <<p4est, loc, net>>

\* From the entry to MPI_Waitall: the plan, the receives, the sends.
PartitionSend(r) ==
    /\ pc[r] = "enter"
    /\ \E plan \in {PartitionPlan(p4est[r], call.new_num_quadrants_in_proc)} :
       \E msgs \in {PartitionMessages(p4est[r], plan)} :
          /\ loc' = [loc EXCEPT ![r] = plan]
          /\ net' = net \cup {[tag |-> "P4EST_COMM_PARTITION_GIVEN",
                               src |-> m.src, dst |-> m.dst, buf |-> m] :
                              m \in msgs}
          /\ call' = [call EXCEPT
                        !.sent = @ \cup {[src |-> m.src, dst |-> m.dst,
                                          num |-> Len(m.quads),
                                          size |-> send_size(p4est[r], plan,
                                                             m.dst)] :
                                         m \in msgs},
                        !.recv = @ \cup PostedReceives(p4est[r], plan)]
    /\ pc' = [pc EXCEPT ![r] = "waitall"]
    /\ UNCHANGED p4est

\* The messages in flight for process r.
Arrived(r) ==
    {m \in net : m.tag = "P4EST_COMM_PARTITION_GIVEN" /\ m.dst = r}

\* MPI_Waitall returns when every expected message is there; the process
\* fills in its forest and enters the collective of
\* p4est_comm_global_partition.
PartitionReceive(r) ==
    /\ pc[r] = "waitall"
    /\ LET expected == {from_proc \in Ranks :
                          from_proc # r /\ loc[r].num_recv_from[from_proc] > 0}
       IN /\ \A from_proc \in expected :
                \E m \in Arrived(r) : m.src = from_proc
          /\ \E res \in {PartitionFill(
                           p4est[r], loc[r],
                           [from_proc \in expected |->
                              (CHOOSE m \in Arrived(r) :
                                 m.src = from_proc).buf])} :
                /\ p4est' = [p4est EXCEPT ![r] = res.pe]
                /\ net' = (net \ {m \in Arrived(r) : m.src \in expected})
                             \cup {[tag |-> "global_partition", src |-> r,
                                    dst |-> -1,
                                    buf |-> FirstPosition(res.pe)]}
                /\ call' = [call EXCEPT !.freed[r] = res.freed]
    /\ pc' = [pc EXCEPT ![r] = "allgather"]
    /\ UNCHANGED loc

\* What the processes contributed to the collective.
Gathered == {m \in net : m.tag = "global_partition"}

\* The collective returns when every process has contributed; the process
\* returns total_quadrants_shipped.
PartitionReturn(r) ==
    /\ pc[r] = "allgather"
    /\ \A q \in Ranks : \E m \in Gathered : m.src = q
    /\ p4est' = [p4est EXCEPT
                   ![r] = p4est_comm_global_partition(
                             @, [q \in Ranks |->
                                   (CHOOSE m \in Gathered : m.src = q).buf])]
    /\ call' = [call EXCEPT !.ret[r] = loc[r].total_quadrants_shipped]
    /\ loc' = [loc EXCEPT ![r] = Idle]
    /\ pc' = [pc EXCEPT ![r] = "idle"]
    /\ net' = IF \A q \in Ranks \ {r} : pc[q] = "idle" THEN net \ Gathered
              ELSE net

NextPart ==
    \/ PartitionGivenCall
    \/ \E r \in Ranks : PartitionSend(r)
    \/ \E r \in Ranks : PartitionReceive(r)
    \/ \E r \in Ranks : PartitionReturn(r)

SpecPart == InitPart /\ [][NextPart]_vars

\* One call with progress: the call is made and a process whose step is
\* possible takes it (each process runs its own code, MPI delivers every
\* message that is sent and the collective returns when every process has
\* entered it).
PartitionGivenOnce == call.n = 0 /\ PartitionGivenCall

NextPartOnce ==
    \/ PartitionGivenOnce
    \/ \E r \in Ranks : PartitionSend(r)
    \/ \E r \in Ranks : PartitionReceive(r)
    \/ \E r \in Ranks : PartitionReturn(r)

SpecPartFair ==
    /\ InitPart
    /\ [][NextPartOnce]_vars
    /\ WF_vars(PartitionGivenOnce)
    /\ \A r \in Ranks :
          /\ WF_vars(PartitionSend(r))
          /\ WF_vars(PartitionReceive(r))
          /\ WF_vars(PartitionReturn(r))

(***************************************************************************)
(* Specification SpecCorrection: p4est_partition_correction on a partition *)
(* of MaxGlobal quadrants over MaxRanks processes and a range of quadrant  *)
(* numbers, called by each process whose first quadrant is inside the      *)
(* range behind its first number, in any order.                            *)
(***************************************************************************)
MaxRanks == 4

MaxGlobal == 6

NotCalled == [called |-> FALSE]

InitCorrection ==
    /\ \E c \in Counts(MaxRanks, MaxGlobal) :
       \E min_quadrant_id \in 0 .. MaxGlobal - 1 :
       \E max_quadrant_id \in min_quadrant_id .. MaxGlobal - 1 :
          loc = [partition |-> FirstQuadrants(c, MaxRanks),
                 min_quadrant_id |-> min_quadrant_id,
                 max_quadrant_id |-> max_quadrant_id]
    /\ call = [name |-> "partition_correction",
               ret |-> [r \in 0 .. MaxRanks - 1 |-> NotCalled]]
    /\ p4est = <<>>
    /\ pc = Idle
    /\ net = {}

\* The first quadrant of the process rank is inside the range, not its
\* first one.
SplitsRange(rank) ==
    /\ loc.min_quadrant_id < loc.partition[rank]
    /\ loc.partition[rank] <= loc.max_quadrant_id

PartitionCorrection(rank) ==
    /\ ~ call.ret[rank].called
    /\ SplitsRange(rank)
    /\ \E res \in {p4est_partition_correction(
                     loc.partition, MaxRanks, rank, loc.min_quadrant_id,
                     loc.max_quadrant_id)} :
          call' = [call EXCEPT
                     !.ret[rank] = [called |-> TRUE, ret |-> res.ret,
                                    rank_with_max_quads |->
                                       res.rank_with_max_quads,
                                    searched |-> res.searched,
                                    undefined |-> res.undefined]]
    /\ UNCHANGED <<p4est, pc, loc, net>>

NextCorrection == \E rank \in 0 .. MaxRanks - 1 : PartitionCorrection(rank)

SpecCorrection == InitCorrection /\ [][NextCorrection]_vars

(***************************************************************************)
(* Specification SpecUniq: p4est_tree_uniqify_overlap on an array out in   *)
(* any order and a sorted array skip, called one time after the other.     *)
(***************************************************************************)
MaxOut == 4

MaxSkip == 2

MaxUniq == 2

\* Entries of two trees: the root, its first child, which starts at the
\* same place, and its last child.
OverlapQuads ==
    {SetUd(q, t) :
       q \in {Quad(0, 0, 0), Quad(0, 0, 1),
              Quad(P4EST_QUADRANT_LEN(1), P4EST_QUADRANT_LEN(1), 1)},
       t \in 0 .. 1}

\* The arrays of up to n entries.
OverlapArrays(n) == UNION {[1 .. k -> OverlapQuads] : k \in 0 .. n}

InitUniq ==
    /\ p4est = Idle
    /\ call = [name |-> "none", n |-> 0]
    /\ pc = Idle
    /\ \E out \in OverlapArrays(MaxOut), skip \in OverlapArrays(MaxSkip) :
          /\ \A i \in 1 .. Len(skip) - 1 :
                p4est_quadrant_compare_piggy(skip[i], skip[i + 1]) <= 0
          /\ loc = [skip |-> skip, out |-> out]
    /\ net = {}

UniqifyOverlap ==
    /\ call.n < MaxUniq
    /\ loc' = [loc EXCEPT !.out = p4est_tree_uniqify_overlap(loc.skip, @)]
    /\ call' = [name |-> "uniqify_overlap", n |-> call.n + 1,
                before |-> loc.out,
                input |-> IF call.n = 0 THEN loc.out ELSE call.input]
    /\ UNCHANGED <<p4est, pc, net>>

NextUniq == UniqifyOverlap

SpecUniq == InitUniq /\ [][NextUniq]_vars

(***************************************************************************)
(* Specification SpecLin: p4est_linearize_tree on a tree whose leaf array  *)
(* is sorted, with repetitions and ancestors.                              *)
(***************************************************************************)
MaxLin == 3

MaxLinLevel == 2

LinQuads == {q \in ValidQuads : q.level <= MaxLinLevel}

\* The arrays of up to MaxLin quadrants in non-decreasing order.
LinInputs ==
    UNION {{s \in [1 .. n -> LinQuads] : sc_array_is_sorted(s, "compare")} :
           n \in 0 .. MaxLin}

InitLin ==
    /\ \E s \in LinInputs : p4est = [r \in {0} |-> InputForest(s, 1)]
    /\ call = [name |-> "none", n |-> 0]
    /\ pc = Idle
    /\ loc = Idle
    /\ net = {}

LinearizeTree ==
    /\ call.n = 0
    /\ \E w \in {p4est_linearize_tree(Work(p4est[0], 0))} :
          /\ p4est' = [p4est EXCEPT ![0] = Store(@, 0, w)]
          /\ call' = [name |-> "linearize_tree", n |-> call.n + 1,
                      before |-> p4est[0], ret |-> w.ret, freed |-> w.freed]
    /\ UNCHANGED <<pc, loc, net>>

NextLin == LinearizeTree

SpecLin == InitLin /\ [][NextLin]_vars

(***************************************************************************)
(* Specification SpecOps: the operations on trees, called in any order on  *)
(* a distributed forest, and p4est_partition_given on a valid forest.      *)
(***************************************************************************)
MaxOps == 2

\* A complete tree that is not balanced: the last child of the first child
\* of the root is refined.
UnbalancedTree ==
    LET c == p4est_quadrant_children(Quad(0, 0, 0))
        cc == p4est_quadrant_children(c[1])
    IN SubSeq(cc, 1, 3) \o p4est_quadrant_children(cc[4]) \o SubSeq(c, 2, 4)

OpsShapes == TreeShapes \cup {UnbalancedTree}

\* The first process holds no leaf or two, the last one no leaf or one.
OpsCounts(n) ==
    {c \in [Ranks -> 0 .. n] :
       /\ c[0] \in {0, 2}
       /\ c[NumProcs - 1] \in {0, 1}
       /\ \A r \in 1 .. NumProcs - 2 : r > 1 => c[r] = 0
       /\ c \in Counts(NumProcs, n)}

InitOps ==
    /\ \E shape \in [0 .. NumTrees - 1 -> OpsShapes] :
       \E G \in {GlobalLeaves(shape)} :
       \E c \in OpsCounts(Len(G)) :
          p4est = DistributedForest(G, c, 1)
    /\ call = [name |-> "none", n |-> 0]
    /\ pc = [r \in Ranks |-> "idle"]
    /\ loc = [r \in Ranks |-> Idle]
    /\ net = {}

IsLocal(pe, which_tree) ==
    pe.first_local_tree <= which_tree /\ which_tree <= pe.last_local_tree

\* A process may call an operation on a tree when no partition is running.
OpsReady ==
    /\ call.n < MaxOps
    /\ \A r \in Ranks : pc[r] = "idle"

\* The record of a call on the tree which_tree of process r, and the
\* forest of the process after it.
OpsReturn(name, r, which_tree, w) ==
    /\ p4est' = [p4est EXCEPT ![r] = Store(@, which_tree, w)]
    /\ call' = [name |-> name, n |-> call.n + 1, rank |-> r,
                which_tree |-> which_tree,
                before |-> p4est[r].trees[which_tree],
                inits |-> w.inits,
                freed |-> w.freed,
                quadrant_pool |-> p4est[r].quadrant_pool]
    /\ UNCHANGED <<pc, loc, net>>

\* The ends of the regions: a quadrant, a descendant of it, a quadrant
\* behind both.
RegionEnds ==
    {Quad(0, 0, 1), Quad(0, 0, 2),
     Quad(P4EST_QUADRANT_LEN(1), P4EST_QUADRANT_LEN(1), 1)}

OpsCompleteRegion ==
    /\ OpsReady
    /\ \E r \in Ranks, which_tree \in 0 .. NumTrees - 1 :
          /\ p4est[r].trees[which_tree].quadrants = <<>>
          /\ \E a \in RegionEnds, b \in RegionEnds,
                include_a \in BOOLEAN, include_b \in BOOLEAN :
                /\ p4est_quadrant_compare(a, b) < 0
                /\ OpsReturn("complete_region", r, which_tree,
                             p4est_complete_region(p4est[r], a, include_a,
                                                   b, include_b, which_tree,
                                                   UserInit))

OpsCompleteSubtree ==
    /\ OpsReady
    /\ \E r \in Ranks, which_tree \in 0 .. NumTrees - 1 :
          /\ IsLocal(p4est[r], which_tree)
          /\ p4est_tree_is_almost_sorted(
                p4est[r].trees[which_tree].quadrants, TRUE)
          /\ OpsReturn("complete_subtree", r, which_tree,
                       p4est_complete_subtree(Work(p4est[r], which_tree),
                                              p4est[r], which_tree, UserInit))

OpsBalanceSubtree ==
    /\ OpsReady
    /\ \E r \in Ranks, which_tree \in 0 .. NumTrees - 1,
          btype \in {P4EST_CONNECT_FACE, P4EST_CONNECT_FULL} :
          /\ IsLocal(p4est[r], which_tree)
          /\ p4est_tree_is_almost_sorted(
                p4est[r].trees[which_tree].quadrants, TRUE)
          /\ OpsReturn("balance_subtree", r, which_tree,
                       p4est_balance_subtree(Work(p4est[r], which_tree),
                                             p4est[r], btype, which_tree,
                                             UserInit))

OpsRemoveNonowned ==
    /\ OpsReady
    /\ \E r \in Ranks, which_tree \in 0 .. NumTrees - 1 :
          /\ IsLocal(p4est[r], which_tree)
          /\ p4est_tree_is_almost_sorted(
                p4est[r].trees[which_tree].quadrants, FALSE)
          /\ OpsReturn("remove_nonowned", r, which_tree,
                       p4est_tree_remove_nonowned(Work(p4est[r], which_tree),
                                                  p4est[r], which_tree))

OpsLinearizeTree ==
    /\ OpsReady
    /\ \E r \in Ranks, which_tree \in 0 .. NumTrees - 1 :
          /\ sc_array_is_sorted(p4est[r].trees[which_tree].quadrants,
                                "compare")
          /\ OpsReturn("linearize_tree", r, which_tree,
                       p4est_linearize_tree(Work(p4est[r], which_tree)))

\* A seed of the leaf p, depth levels below it: the first child of the
\* last descendant of p one level above the seed.
OpsSeed(p, depth) ==
    LET down[k \in 0 .. depth - 1] ==
           IF k = 0 THEN p
           ELSE p4est_quadrant_children(down[k - 1])[P4EST_CHILDREN]
    IN p4est_quadrant_children(down[depth - 1])[1]

\* The borders of a tree with the leaves tq: the first or the last leaf
\* with seeds below it, in order, or out of order with a seed twice.
OpsBorders(tq) ==
    UNION {{IF p.level + 3 <= P4EST_QMAXLEVEL
            THEN <<p, OpsSeed(p, 2), OpsSeed(p, 3)>>
            ELSE <<p, OpsSeed(p, 2)>>,
            <<OpsSeed(p, 2), p, OpsSeed(p, 2)>>} :
           p \in {Bare(tq[i]) :
                    i \in {j \in {1, Len(tq)} :
                             tq[j].level + 2 <= P4EST_QMAXLEVEL}}}

OpsBalanceBorder ==
    /\ OpsReady
    /\ \E r \in Ranks, which_tree \in 0 .. NumTrees - 1,
          btype \in {P4EST_CONNECT_FACE, P4EST_CONNECT_FULL} :
          /\ IsLocal(p4est[r], which_tree)
          /\ p4est_tree_is_complete(p4est[r].trees[which_tree].quadrants)
          /\ \E qarray \in OpsBorders(p4est[r].trees[which_tree].quadrants) :
                OpsReturn("balance_border", r, which_tree,
                          p4est_balance_border(Work(p4est[r], which_tree),
                                               p4est[r], btype, which_tree,
                                               UserInit, qarray))

\* Every process calls p4est_partition_given on the valid forest.
OpsPartitionGiven ==
    /\ OpsReady
    /\ \A r \in Ranks : p4est_is_valid(p4est[r])
    /\ \E nn \in OpsCounts(p4est[0].global_num_quadrants) :
          call' = [name |-> "partition_given", n |-> call.n + 1,
                   new_num_quadrants_in_proc |-> nn,
                   before |-> p4est,
                   sent |-> {},
                   recv |-> {},
                   freed |-> [r \in Ranks |-> <<>>],
                   ret |-> [r \in Ranks |-> -1]]
    /\ pc' = [r \in Ranks |-> "enter"]
    /\ UNCHANGED <<p4est, loc, net>>

NextOps ==
    \/ OpsCompleteRegion
    \/ OpsCompleteSubtree
    \/ OpsBalanceSubtree
    \/ OpsBalanceBorder
    \/ OpsLinearizeTree
    \/ OpsRemoveNonowned
    \/ OpsPartitionGiven
    \/ \E r \in Ranks : PartitionSend(r)
    \/ \E r \in Ranks : PartitionReceive(r)
    \/ \E r \in Ranks : PartitionReturn(r)

SpecOps == InitOps /\ [][NextOps]_vars

(***************************************************************************)
(* Specification SpecOverlap: p4est_tree_compute_overlap and               *)
(* p4est_tree_compute_overlap_new on the first tree of a forest of three   *)
(* trees, for input quadrants inside the root of the tree and next to it.  *)
(***************************************************************************)
MaxOverlapIn == 1

MaxOverlapLevel == 2

\* The neighbours of tree 0: tree 1 across the faces 0 and 2, tree 2
\* across the faces 1 and 3; one or two trees across a corner.
OverlapConn ==
    [face |->
        [t \in {0} |->
           [f \in 0 .. P4EST_FACES - 1 |->
              [ntree |-> IF f % 2 = 0 THEN 1 ELSE 2,
               dx |-> IF f = 0 THEN P4EST_ROOT_LEN
                      ELSE IF f = 1 THEN - P4EST_ROOT_LEN ELSE 0,
               dy |-> IF f = 2 THEN P4EST_ROOT_LEN
                      ELSE IF f = 3 THEN - P4EST_ROOT_LEN ELSE 0]]],
     corner |->
        [t \in {0} |->
           [c \in 0 .. P4EST_CHILDREN - 1 |->
              IF c = 0 THEN <<[ntree |-> 1, ncorner |-> 3]>>
              ELSE IF c = 1 THEN <<[ntree |-> 1, ncorner |-> 2],
                                   [ntree |-> 2, ncorner |-> 2]>>
              ELSE IF c = 2 THEN <<[ntree |-> 2, ncorner |-> 1],
                                   [ntree |-> 1, ncorner |-> 1]>>
              ELSE <<[ntree |-> 2, ncorner |-> 0]>>]]]

\* The process owns the leaves i .. j of tree 0, which has the leaves
\* shape, and nothing of the trees 1 and 2.
OverlapForest(shape, i, j) ==
    LET s == SubSeq(shape, i, j)
    IN [SerialForest(
          3, 1,
          [t \in 0 .. 2 |->
             IF t = 0
             THEN TreeOf([k \in DOMAIN s |-> SetUd(s[k], k)])
             ELSE EmptyTree],
          [k \in DOMAIN s |-> InitValue(0, s[k])])
        EXCEPT !.mpisize = 3, !.mpirank = 1, !.last_local_tree = 0,
               !.global_first_position =
                  [r \in 0 .. 3 |->
                     IF r = 0 THEN Position(0, 0, 0)
                     ELSE IF r = 1 THEN Position(0, shape[i].x, shape[i].y)
                     ELSE IF r = 2 /\ j < Len(shape)
                     THEN Position(0, shape[j + 1].x, shape[j + 1].y)
                     ELSE IF r = 2 THEN Position(1, 0, 0)
                     ELSE Position(3, 0, 0)]]

\* The input quadrants: inside the root, or of the same sizes next to it,
\* with the tree they come from.
OverlapInputs ==
    LET sized == UNION {{Quad(i * P4EST_QUADRANT_LEN(l),
                              j * P4EST_QUADRANT_LEN(l), l) :
                           i \in -1 .. 2 ^ l, j \in -1 .. 2 ^ l} :
                        l \in 0 .. MaxOverlapLevel}
    IN UNION {{SetUd(q, Piggy2(0, ft)) :
                 ft \in IF p4est_quadrant_is_inside_root(q) THEN {0}
                        ELSE {1, 2}} :
              q \in sized}

\* In the new mode a quadrant comes from a neighbour across its face or
\* corner.
FromNeighbour(inq) ==
    LET ct == OverlapContact(OverlapConn, inq)
    IN IF ~ ct.inter_tree THEN TRUE
       ELSE IF ct.contact_face_only THEN inq.ud.from_tree = ct.ntree
       ELSE \E i \in DOMAIN ct.cta : ct.cta[i].ntree = inq.ud.from_tree

InitOverlap ==
    /\ \E shape \in OpsShapes :
       \E i \in DOMAIN shape, j \in DOMAIN shape :
          /\ i <= j
          /\ i = 1 \/ j = Len(shape)
          /\ p4est = [r \in {1} |-> OverlapForest(shape, i, j)]
    /\ \E n \in 1 .. MaxOverlapIn :
       \E in \in [1 .. n -> OverlapInputs] :
       \E mode \in {"legacy", "near", "deep"} :
       \E borders \in {FALSE, TRUE} :
          /\ mode # "legacy" => \A k \in 1 .. n : FromNeighbour(in[k])
          /\ mode = "legacy" => ~ borders
          /\ loc = [in |-> in, mode |-> mode, borders |-> borders]
    /\ call = [name |-> "none", n |-> 0]
    /\ pc = Idle
    /\ net = {}

ComputeOverlap ==
    /\ call.n = 0
    /\ loc.mode = "legacy"
    /\ \E res \in {p4est_tree_compute_overlap(p4est[1], OverlapConn, loc.in)} :
          call' = [name |-> "compute_overlap", n |-> 1, in |-> loc.in,
                   out |-> res.out, tests |-> res.tests]
    /\ UNCHANGED <<p4est, pc, loc, net>>

\* With borders, the leaves of the tree deeper than level 1 are searched.
ComputeOverlapNew ==
    /\ call.n = 0
    /\ loc.mode # "legacy"
    /\ LET tq == p4est[1].trees[0].quadrants
           deep == SelectSeq(tq, LAMBDA q : q.level > 1)
       IN /\ loc.borders => deep # <<>>
          /\ \E res \in {p4est_tree_compute_overlap_new(
                           p4est[1], OverlapConn, loc.in, loc.mode,
                           IF loc.borders THEN <<deep>> ELSE NoBorders)} :
                call' = [name |-> "compute_overlap_new", n |-> 1,
                         in |-> loc.in, out |-> res.out, tests |-> res.tests]
    /\ UNCHANGED <<p4est, pc, loc, net>>

NextOverlap == ComputeOverlap \/ ComputeOverlapNew

SpecOverlap == InitOverlap /\ [][NextOverlap]_vars

(***************************************************************************)
(* Specification SpecValid: p4est_is_valid, called by all processes on a   *)
(* distributed forest in which one field of one process may be damaged.    *)
(***************************************************************************)

\* p4est_comm_sync_flag with MPI_BOR: the flags of all processes, or-ed.
p4est_comm_sync_flag(flags) ==
    \E r \in DOMAIN flags : flags[r]

\* What p4est_is_valid returns without the reduction: the own flag.
IsValidReturn_OwnFlag(flags, r) ==
    ~ flags[r]

\* What p4est_is_valid returns on process r.
IsValidReturn(flags, r) ==
    ~ p4est_comm_sync_flag(flags)

\* A tree with one of its fields, or one of its leaves, changed.
DamagedTrees(tree) ==
    LET qpl == tree.quadrants_per_level
        ql == 0 .. P4EST_QMAXLEVEL
        moved == {[qpl EXCEPT ![a] = @ - 1, ![b] = @ + 1] :
                    a \in {l \in ql : qpl[l] > 0}, b \in ql} \ {qpl}
        tq == tree.quadrants
    IN {[tree EXCEPT !.quadrants_per_level = m] : m \in moved}
       \cup {[tree EXCEPT !.quadrants_per_level = m,
                          !.maxlevel = MaxCountedLevel(m)] : m \in moved}
       \cup {[tree EXCEPT !.quadrants_per_level[a] = @ + 1] : a \in ql}
       \cup {[tree EXCEPT !.quadrants_offset = @ + 1]}
       \cup {[tree EXCEPT !.maxlevel = a] : a \in ql \ {tree.maxlevel}}
       \cup {Once({[tree EXCEPT
                      !.quadrants[i] = p4est_quadrant_children(tq[i])[1],
                      !.quadrants_per_level = m,
                      !.maxlevel = MaxCountedLevel(m)] :
                   m \in {[qpl EXCEPT ![tq[i].level] = @ - 1,
                                      ![tq[i].level + 1] = @ + 1]}}) :
             i \in {k \in 1 .. Len(tq) - 1 : tq[k].level < P4EST_QMAXLEVEL}}

\* The forest of a process with one tree damaged, or, for a process
\* without leaves, with another range of trees.
DamagedForests(pe) ==
    UNION {{[pe EXCEPT !.trees[t] = d] : d \in DamagedTrees(pe.trees[t])} :
           t \in 0 .. pe.num_trees - 1}
    \cup {[pe EXCEPT !.first_local_tree = f, !.last_local_tree = l] :
            f \in IF pe.local_num_quadrants = 0
                  THEN (-2 .. pe.num_trees - 1) ELSE {},
            l \in -2 .. pe.num_trees - 1}

InitValid ==
    /\ \E shape \in [0 .. NumTrees - 1 -> OpsShapes] :
       \E G \in {GlobalLeaves(shape)} :
       \E c \in OpsCounts(Len(G)) :
       \E good \in {DistributedForest(G, c, 1)} :
          \/ p4est = good
          \/ \E r \in Ranks : \E bad \in DamagedForests(good[r]) \ {good[r]} :
                p4est = [good EXCEPT ![r] = bad]
    /\ call = [name |-> "is_valid", n |-> 0, ret |-> {}]
    /\ pc = [r \in Ranks |-> "idle"]
    /\ loc = [r \in Ranks |-> Idle]
    /\ net = {}

\* Process r runs its checks and enters the reduction with its flag.
ValidCheck(r) ==
    /\ pc[r] = "idle"
    /\ \E failed \in {~ p4est_is_valid(p4est[r])} :
          /\ loc' = [loc EXCEPT ![r] = [failed |-> failed]]
          /\ net' = net \cup {[rank |-> r, failed |-> failed]}
    /\ pc' = [pc EXCEPT ![r] = "sync"]
    /\ UNCHANGED <<p4est, call>>

\* The reduction ends on process r when all processes have entered it.
ValidReturn(r) ==
    /\ pc[r] = "sync"
    /\ \A r2 \in Ranks : \E m \in net : m.rank = r2
    /\ LET flags == [r2 \in Ranks |->
                       (CHOOSE m \in net : m.rank = r2).failed]
       IN call' = [call EXCEPT
                     !.n = @ + 1,
                     !.ret = @ \cup {[rank |-> r,
                                      ret |-> IsValidReturn(flags, r)]}]
    /\ pc' = [pc EXCEPT ![r] = "done"]
    /\ UNCHANGED <<p4est, loc, net>>

NextValid ==
    \/ \E r \in Ranks : ValidCheck(r)
    \/ \E r \in Ranks : ValidReturn(r)

SpecValid == InitValid /\ [][NextValid]_vars

(***************************************************************************)
(* Specification SpecBorder: p4est_balance_border on a complete tree that  *)
(* the process owns wholly, with a border of leaves of the tree and seeds  *)
(* below them, in any order and with repetitions.                          *)
(***************************************************************************)
MaxBorder == 4

\* What a border of the tree with the leaves tq is made of: its first and
\* its last leaf, when seeds fit below them, and seeds of these leaves.
BorderQuads(tq) ==
    UNION {{p, OpsSeed(p, 2)}
              \cup (IF p.level + 3 <= P4EST_QMAXLEVEL THEN {OpsSeed(p, 3)}
                    ELSE {}) :
           p \in {Bare(tq[i]) :
                    i \in {j \in {1, Len(tq)} :
                             tq[j].level + 2 <= P4EST_QMAXLEVEL}}}

Borders(tq) == UNION {[1 .. n -> BorderQuads(tq)] : n \in 0 .. MaxBorder}

InitBorder ==
    /\ \E s \in OpsShapes :
       \E qarray \in Borders(s) :
          /\ p4est = [r \in {0} |-> InputForest(s, 1)]
          /\ loc = [qarray |-> qarray]
    /\ call = [name |-> "none", n |-> 0]
    /\ pc = Idle
    /\ net = {}

BalanceBorder ==
    /\ call.n = 0
    /\ \E btype \in {P4EST_CONNECT_FACE, P4EST_CONNECT_FULL} :
       \E w \in {p4est_balance_border(Work(p4est[0], 0), p4est[0], btype, 0,
                                      UserInit, loc.qarray)} :
          /\ p4est' = [p4est EXCEPT ![0] = Store(@, 0, w)]
          /\ call' = [name |-> "balance_border", n |-> call.n + 1,
                      btype |-> btype, qarray |-> loc.qarray,
                      before |-> p4est[0],
                      inits |-> w.inits, freed |-> w.freed]
    /\ UNCHANGED <<pc, loc, net>>

NextBorder == BalanceBorder

SpecBorder == InitBorder /\ [][NextBorder]_vars

(***************************************************************************)
(* Properties of leaf arrays.                                               *)
(***************************************************************************)
p4est_tree_is_sorted(s) ==
    \A i \in 1 .. Len(s) - 1 : p4est_quadrant_compare(s[i], s[i + 1]) < 0

NoAncestorPair(s) ==
    \A i \in 1 .. Len(s) : \A j \in 1 .. Len(s) :
       ~ p4est_quadrant_is_ancestor(s[i], s[j])

p4est_tree_is_linear(s) ==
    \A i \in 1 .. Len(s) - 1 :
       /\ p4est_quadrant_compare(s[i], s[i + 1]) < 0
       /\ ~ p4est_quadrant_is_ancestor(s[i], s[i + 1])

Leaves(r, t) == p4est[r].trees[t].quadrants

\* C1: after complete_region on an empty tree with a < b, the leaves are
\* strictly increasing in Morton order, hold no ancestor-descendant pair,
\* every consecutive pair satisfies is_next, a is the first leaf iff
\* include_a and b is the last leaf iff include_b.
C1_CompleteRegionTiles ==
    call.name = "complete_region" =>
       /\ p4est_tree_is_sorted(Leaves(0, 0))
       /\ NoAncestorPair(Leaves(0, 0))
       /\ p4est_tree_is_complete(Leaves(0, 0))
       /\ call.include_q1 <=>
             /\ Leaves(0, 0) # <<>>
             /\ p4est_quadrant_is_equal(Leaves(0, 0)[1], call.q1)
       /\ call.include_q2 <=>
             /\ Leaves(0, 0) # <<>>
             /\ p4est_quadrant_is_equal(Leaves(0, 0)[Len(Leaves(0, 0))],
                                        call.q2)

\* The same for the pairs in which a is not an ancestor of b.
C1_DisjointEnds ==
    (call.name = "complete_region"
       /\ ~ p4est_quadrant_is_ancestor(call.q1, call.q2))
    => C1_CompleteRegionTiles

\* The leaves of s as (x, y, level), payload slots left out.
Coords(s) == [i \in DOMAIN s |-> <<s[i].x, s[i].y, s[i].level>>]

\* The extent of the overlap of the closed sides of a and b along x and
\* along y: positive when the interiors overlap, 0 when the sides touch.
OverlapX(a, b) ==
    SC_MIN(a.x + P4EST_QUADRANT_LEN(a.level), b.x + P4EST_QUADRANT_LEN(b.level))
      - SC_MAX(a.x, b.x)

OverlapY(a, b) ==
    SC_MIN(a.y + P4EST_QUADRANT_LEN(a.level), b.y + P4EST_QUADRANT_LEN(b.level))
      - SC_MAX(a.y, b.y)

FaceAdjacent(a, b) ==
    \/ OverlapX(a, b) = 0 /\ OverlapY(a, b) > 0
    \/ OverlapX(a, b) > 0 /\ OverlapY(a, b) = 0

CornerAdjacent(a, b) == OverlapX(a, b) = 0 /\ OverlapY(a, b) = 0

\* No two leaves whose levels differ by two or more are adjacent across a
\* face, nor across a corner when corners count.
Balanced21(s, corners) ==
    \A i \in DOMAIN s : \A j \in DOMAIN s :
       s[i].level - s[j].level >= 2 =>
          /\ ~ FaceAdjacent(s[i], s[j])
          /\ corners => ~ CornerAdjacent(s[i], s[j])

\* The leaves of s cover the root: they lie inside it and their areas add
\* up to the area of the root (with no overlap, s tiles the root).
CoversRoot(s) ==
    LET area[i \in 0 .. Len(s)] ==
           IF i = 0 THEN 0
           ELSE area[i - 1]
                  + P4EST_QUADRANT_LEN(s[i].level) * P4EST_QUADRANT_LEN(s[i].level)
    IN /\ \A i \in DOMAIN s : p4est_quadrant_is_valid(s[i])
       /\ area[Len(s)] = P4EST_ROOT_LEN * P4EST_ROOT_LEN

\* C2: balance_subtree(btype) on a wholly owned tree with a sorted, non-empty
\* leaf array leaves the tree linear (strictly sorted, no ancestor-descendant
\* pair), complete (consecutive leaves satisfy is_next, the leaves tile the
\* root) and 2:1 balanced across faces, and across corners for btype full.
C2_BalanceSubtreeResult ==
    call.name = "balance_subtree" =>
       /\ p4est_tree_is_sorted(Leaves(0, 0))
       /\ NoAncestorPair(Leaves(0, 0))
       /\ p4est_tree_is_complete(Leaves(0, 0))
       /\ CoversRoot(Leaves(0, 0))
       /\ Balanced21(Leaves(0, 0), call.btype = P4EST_CONNECT_FULL)

\* A first call of balance_subtree (full) on an ancestor and its descendant
\* two levels below, which refined the tree.
C2_Witness ==
    /\ call.name = "balance_subtree"
    /\ call.n = 1
    /\ call.btype = P4EST_CONNECT_FULL
    /\ Len(call.before.trees[0].quadrants) = 2
    /\ p4est_quadrant_is_ancestor(call.before.trees[0].quadrants[1],
                                  call.before.trees[0].quadrants[2])
    /\ call.before.trees[0].quadrants[2].level = P4EST_QMAXLEVEL
    /\ Len(Leaves(0, 0)) > 2 * P4EST_CHILDREN

\* C8: a second balance_subtree with the same btype right after a
\* balance_subtree adds and removes no leaf: the leaf sequence, the
\* per-level counts and maxlevel are those of the first result.
C8_BalanceIdempotent ==
    (/\ call.name = "balance_subtree"
     /\ call.prev.name = "balance_subtree"
     /\ call.prev.btype = call.btype)
    => /\ Coords(Leaves(0, 0)) = Coords(call.before.trees[0].quadrants)
       /\ p4est[0].trees[0].quadrants_per_level
             = call.before.trees[0].quadrants_per_level
       /\ p4est[0].trees[0].maxlevel = call.before.trees[0].maxlevel

\* A second balance with the same btype on a tree of three levels.
C8_Witness ==
    /\ call.name = "balance_subtree"
    /\ call.n = 2
    /\ call.prev.name = "balance_subtree"
    /\ call.prev.btype = call.btype
    /\ p4est[0].trees[0].maxlevel = P4EST_QMAXLEVEL
    /\ p4est[0].trees[0].quadrants_per_level[1] > 0
    /\ p4est[0].trees[0].quadrants_per_level[2] > 0

(***************************************************************************)
(* p4est_partition_given: claims under SpecPart.                           *)
(***************************************************************************)
\* The (tree, coordinates, level) of the local leaves, tree-major.
LeafKeys(pe) ==
    LET cat[t \in -1 .. pe.num_trees - 1] ==
           IF t = -1 THEN <<>>
           ELSE cat[t - 1]
                  \o [i \in DOMAIN pe.trees[t].quadrants |->
                        <<t, pe.trees[t].quadrants[i].x,
                          pe.trees[t].quadrants[i].y,
                          pe.trees[t].quadrants[i].level>>]
    IN cat[pe.num_trees - 1]

\* The local leaves of all processes in rank order.
GlobalSequence(forest) ==
    LET cat[r \in -1 .. NumProcs - 1] ==
           IF r = -1 THEN <<>> ELSE cat[r - 1] \o LeafKeys(forest[r])
    IN cat[NumProcs - 1]

InPartition == call.name = "partition_given"

Returned(r) == InPartition /\ call.ret[r] # -1

AllReturned == InPartition /\ \A r \in Ranks : call.ret[r] # -1

\* The owner of the leaf with global index g in the table gfq.
OwnerOf(gfq, g) == CHOOSE r \in Ranks : gfq[r] <= g /\ g < gfq[r + 1]

NewCount == call.new_num_quadrants_in_proc

OldCount == [r \in Ranks |-> call.before[r].local_num_quadrants]

\* C3: when p4est_partition_given has returned on every process, the
\* (tree, coordinates, level) of the leaves of all processes, in rank order
\* and tree-major, are the sequence they were when it was called.
C3_GlobalSequencePreserved ==
    AllReturned => GlobalSequence(p4est) = GlobalSequence(call.before)

\* A call that moved leaves between processes has returned everywhere.
C3_Witness ==
    AllReturned /\ Cardinality(call.sent) >= 2 /\ NewCount # OldCount

\* C4: after the return, on every process local_num_quadrants is
\* new_count[rank] and global_first_quadrant holds the prefix sums of
\* new_count; the local counts add up to global_num_quadrants, the last
\* entry of the table.
C4_CountsAndPrefixSums ==
    /\ \A r \in Ranks :
          Returned(r) =>
             /\ p4est[r].local_num_quadrants = NewCount[r]
             /\ Len(LeafKeys(p4est[r])) = NewCount[r]
             /\ p4est[r].global_first_quadrant
                   = FirstQuadrants(NewCount, NumProcs)
             /\ p4est[r].global_first_quadrant[NumProcs]
                   = p4est[r].global_num_quadrants
    /\ AllReturned =>
          FirstQuadrants([r \in Ranks |-> p4est[r].local_num_quadrants],
                         NumProcs)[NumProcs]
             = p4est[0].global_num_quadrants

\* The call of the example, in small: the outer processes end empty.
C4_Witness ==
    /\ AllReturned
    /\ NewCount[0] = 0 /\ NewCount[NumProcs - 1] = 0
    /\ OldCount[0] > 0 /\ OldCount[NumProcs - 1] > 0

\* C5: the return value is the same on every process and is the number of
\* leaves whose owner changes, which is the number of leaves in the
\* messages of the call.
C5_ReturnIsMigrated ==
    AllReturned =>
       LET old == call.before[0].global_first_quadrant
           new == FirstQuadrants(NewCount, NumProcs)
           moved == {g \in 0 .. call.before[0].global_num_quadrants - 1 :
                       OwnerOf(old, g) # OwnerOf(new, g)}
           sent[r \in -1 .. NumProcs - 1, q \in -1 .. NumProcs - 1] ==
              \* the leaves in the messages from the processes below r, and
              \* from r to the processes below q
              IF r = -1 THEN 0
              ELSE IF q = -1 THEN sent[r - 1, NumProcs - 1]
              ELSE sent[r, q - 1]
                     + (IF \E m \in call.sent : m.src = r /\ m.dst = q
                        THEN (CHOOSE m \in call.sent :
                                m.src = r /\ m.dst = q).num
                        ELSE 0)
       IN /\ \A r \in Ranks : call.ret[r] = Cardinality(moved)
          /\ sent[NumProcs - 1, NumProcs - 1] = Cardinality(moved)
          /\ \A m \in call.sent : m.src # m.dst

\* A call in which leaves pass over a process has returned.
C5_Witness ==
    AllReturned /\ call.ret[0] >= 3 /\ Cardinality(call.sent) >= 2

\* C6: a call with the current counts sends no message, returns 0 and
\* leaves the leaves with their payload handles, the local tree range and
\* global_first_quadrant as they were.
C6_CurrentCountsNoOp ==
    (InPartition /\ NewCount = OldCount) =>
       /\ call.sent = {}
       /\ \A m \in net : m.tag # "P4EST_COMM_PARTITION_GIVEN"
       /\ \A r \in Ranks :
             /\ \A t \in 0 .. NumTrees - 1 :
                   p4est[r].trees[t].quadrants
                      = call.before[r].trees[t].quadrants
             /\ p4est[r].user_data_pool = call.before[r].user_data_pool
             /\ p4est[r].first_local_tree = call.before[r].first_local_tree
             /\ p4est[r].last_local_tree = call.before[r].last_local_tree
             /\ p4est[r].global_first_quadrant
                   = call.before[r].global_first_quadrant
             /\ Returned(r) => call.ret[r] = 0

\* The call with the current counts has returned, one process being empty.
C6_Witness ==
    /\ AllReturned
    /\ NewCount = OldCount
    /\ \E r \in Ranks : OldCount[r] = 0
    /\ \E r \in Ranks : OldCount[r] >= 2

\* C7: after the return a process with new count 0 has the tree range
\* (-1, -2) and no leaves; a process with a positive count has
\* 0 <= first_local_tree <= last_local_tree and leaves in every tree of
\* the range.
C7_LocalTreeRange ==
    \A r \in Ranks :
       Returned(r) =>
          IF NewCount[r] = 0
          THEN /\ p4est[r].first_local_tree = -1
               /\ p4est[r].last_local_tree = -2
               /\ \A t \in 0 .. NumTrees - 1 :
                     p4est[r].trees[t].quadrants = <<>>
          ELSE /\ 0 <= p4est[r].first_local_tree
               /\ p4est[r].first_local_tree <= p4est[r].last_local_tree
               /\ \A t \in p4est[r].first_local_tree
                             .. p4est[r].last_local_tree :
                     p4est[r].trees[t].quadrants # <<>>

\* After the return: an empty process that stays empty, a process that
\* gives all its leaves away, and a process with leaves in two trees.
C7_Witness ==
    /\ AllReturned
    /\ \E r \in Ranks : OldCount[r] = 0 /\ NewCount[r] = 0
    /\ \E r \in Ranks : OldCount[r] > 0 /\ NewCount[r] = 0
    /\ \E r \in Ranks : p4est[r].first_local_tree < p4est[r].last_local_tree

(***************************************************************************)
(* p4est_tree_uniqify_overlap: the claim under SpecUniq.                   *)
(***************************************************************************)
\* The order by (which_tree, Morton index, level).
OverlapBefore(a, b) ==
    \/ a.ud < b.ud
    \/ a.ud = b.ud /\ MortonKey(a) < MortonKey(b)
    \/ a.ud = b.ud /\ MortonKey(a) = MortonKey(b) /\ a.level < b.level

SameEntry(a, b) ==
    a.ud = b.ud /\ a.x = b.x /\ a.y = b.y /\ a.level = b.level

\* C10: after p4est_tree_uniqify_overlap (skip, out) the array out is in
\* the order of (which_tree, Morton index, level), no two of its entries
\* are equal in tree, coordinates and level, none of them is in skip, and
\* every entry of the input that is not in skip is there one time, an
\* ancestor together with its descendant; a second call changes nothing.
C10_UniqifyOverlap ==
    call.name = "uniqify_overlap" =>
       /\ \A i \in 1 .. Len(loc.out) - 1 :
             OverlapBefore(loc.out[i], loc.out[i + 1])
       /\ \A i, j \in DOMAIN loc.out :
             i # j => ~ SameEntry(loc.out[i], loc.out[j])
       /\ \A i \in DOMAIN loc.out, j \in DOMAIN loc.skip :
             ~ SameEntry(loc.out[i], loc.skip[j])
       /\ \A k \in DOMAIN call.input :
             (\A j \in DOMAIN loc.skip :
                 ~ SameEntry(call.input[k], loc.skip[j]))
                => Cardinality({i \in DOMAIN loc.out :
                                  SameEntry(loc.out[i], call.input[k])}) = 1
       /\ \A i \in DOMAIN loc.out :
             \E k \in DOMAIN call.input : SameEntry(loc.out[i], call.input[k])
       /\ call.n = 2 => loc.out = call.before

\* The second call has returned; the input was out of order, with an entry
\* two times and an entry of skip, and an ancestor and its descendant of
\* one tree are in the result.
C10_Witness ==
    /\ call.name = "uniqify_overlap" /\ call.n = 2
    /\ \E i \in 1 .. Len(call.input) - 1 :
          OverlapBefore(call.input[i + 1], call.input[i])
    /\ \E i, j \in DOMAIN call.input :
          i # j /\ SameEntry(call.input[i], call.input[j])
    /\ \E i \in DOMAIN call.input, j \in DOMAIN loc.skip :
          SameEntry(call.input[i], loc.skip[j])
    /\ \E i, j \in DOMAIN loc.out :
          /\ loc.out[i].ud = loc.out[j].ud
          /\ p4est_quadrant_is_ancestor(loc.out[i], loc.out[j])

\* The number of leaves of level l in the leaf array s.
LeavesAt(s, l) == Cardinality({i \in DOMAIN s : s[i].level = l})

\* C9: after any sequence of calls of complete_region, complete_subtree,
\* balance_subtree, balance_border, linearize_tree, remove_nonowned and
\* partition_given, for every tree of every process the counters of the
\* levels 0 .. P4EST_QMAXLEVEL add up to the number of leaves, each of them
\* is the number of leaves of its level, and maxlevel is the largest level
\* with a counter that is not zero, 0 for a tree without leaves.
C9_TreeCounters ==
    (\A r \in Ranks : pc[r] = "idle") =>
       \A r \in Ranks, t \in 0 .. NumTrees - 1 :
          LET tree == p4est[r].trees[t]
              used == {l \in 0 .. P4EST_QMAXLEVEL :
                         tree.quadrants_per_level[l] # 0}
          IN /\ CountedQuadrants(tree.quadrants_per_level)
                   = Len(tree.quadrants)
             /\ \A l \in 0 .. P4EST_QMAXLEVEL :
                   tree.quadrants_per_level[l] = LeavesAt(tree.quadrants, l)
             /\ tree.maxlevel = IF used = {} THEN 0
                                ELSE CHOOSE m \in used : \A l \in used : l <= m

\* The second call of a sequence has returned, it was balance_border and
\* put leaves of a deeper level in the place of a leaf.
C9_Witness ==
    /\ call.n = MaxOps
    /\ call.name = "balance_border"
    /\ p4est[call.rank].trees[call.which_tree].maxlevel > call.before.maxlevel
    /\ Len(p4est[call.rank].trees[call.which_tree].quadrants)
          > Len(call.before.quadrants)

\* The entries of s that neither equal nor contain a later entry, in the
\* order of s.
WithoutCovered(s) ==
    LET kept[i \in 0 .. Len(s)] ==
           IF i = 0 THEN <<>>
           ELSE IF \E j \in (i + 1) .. Len(s) :
                      \/ p4est_quadrant_is_equal(s[i], s[j])
                      \/ p4est_quadrant_is_ancestor(s[i], s[j])
                THEN kept[i - 1]
                ELSE Append(kept[i - 1], s[i])
    IN kept[Len(s)]

\* C11: linearize_tree on a sorted leaf array removes the entries that are
\* equal to or an ancestor of a later entry and no others, keeps the rest
\* in their order, leaves the array strictly sorted and without an
\* ancestor-descendant pair, and returns the number of removed entries, 0
\* for an array of length 0 or 1.
C11_LinearizeTree ==
    call.name = "linearize_tree" =>
       LET before == call.before.trees[0].quadrants
           after == p4est[0].trees[0].quadrants
       IN /\ after = WithoutCovered(before)
          /\ p4est_tree_is_sorted(after)
          /\ NoAncestorPair(after)
          /\ call.ret = Len(before) - Len(after)
          /\ Len(before) <= 1 => call.ret = 0

\* linearize_tree has removed a repeated entry and an ancestor and kept an
\* entry.
C11_Witness ==
    /\ call.name = "linearize_tree"
    /\ call.ret = 2
    /\ Len(p4est[0].trees[0].quadrants) = 1
    /\ LET before == call.before.trees[0].quadrants
       IN /\ p4est_quadrant_is_equal(before[1], before[2])
          /\ p4est_quadrant_is_ancestor(before[2], before[3])

\* The entries of s that are p or descendants of p, in the order of s.
Within(s, p) ==
    LET part[i \in 0 .. Len(s)] ==
           IF i = 0 THEN <<>>
           ELSE IF \/ p4est_quadrant_is_equal(p, s[i])
                   \/ p4est_quadrant_is_ancestor(p, s[i])
                THEN Append(part[i - 1], s[i])
                ELSE part[i - 1]
    IN part[Len(s)]

\* The leaves of the array tq that are in the border and have a strict
\* descendant in the border.
Containers(tq, qarray) ==
    {i \in DOMAIN tq :
       /\ \E k \in DOMAIN qarray : p4est_quadrant_is_equal(qarray[k], tq[i])
       /\ \E k \in DOMAIN qarray : p4est_quadrant_is_ancestor(tq[i], qarray[k])}

\* flist is sorted, made of strict descendants of p, each followed by its
\* successor, and covers p from its first to its last corner.
TilesLeaf(flist, p) ==
    /\ Len(flist) >= 2
    /\ \A k \in DOMAIN flist : p4est_quadrant_is_ancestor(p, flist[k])
    /\ p4est_tree_is_sorted(flist)
    /\ p4est_tree_is_complete(flist)
    /\ flist[1].x = p.x /\ flist[1].y = p.y
    /\ p4est_quadrant_is_equal(
          p4est_quadrant_last_descendant(flist[Len(flist)], P4EST_QMAXLEVEL),
          p4est_quadrant_last_descendant(Bare(p), P4EST_QMAXLEVEL))

\* C12: balance_border puts, in the place of every leaf of the tree that is
\* in the border and has a strict descendant in the border, a sorted
\* sequence of strict descendants of the leaf that tiles it, each followed
\* by its successor; all other leaves stay as they are and where they are
\* among the leaves, the tree is complete on return, and a border that is
\* empty or has no descendants of its quadrants leaves the tree unchanged.
C12_BalanceBorder ==
    call.name = "balance_border" =>
       LET before == call.before.trees[0].quadrants
           after == p4est[0].trees[0].quadrants
           replaced == Containers(before, call.qarray)
           joined[i \in 0 .. Len(before)] ==
              IF i = 0 THEN <<>>
              ELSE joined[i - 1] \o Within(after, before[i])
       IN /\ after = joined[Len(before)]
          /\ \A i \in DOMAIN before :
                IF i \in replaced
                THEN TilesLeaf(Within(after, before[i]), before[i])
                ELSE Within(after, before[i]) = <<before[i]>>
          /\ p4est_tree_is_complete(after)
          /\ replaced = {} => after = before

\* The same for a border that holds no quadrant twice.
C12_WithoutRepetition ==
    (call.name = "balance_border"
       /\ \A i \in DOMAIN call.qarray, j \in DOMAIN call.qarray :
             i # j => call.qarray[i] # call.qarray[j])
       => C12_BalanceBorder

\* The first and the last quadrant of level l of a tree.
FirstCorner(l) == Quad(0, 0, l)

LastCorner(l) ==
    Quad(P4EST_ROOT_LEN - P4EST_QUADRANT_LEN(l),
         P4EST_ROOT_LEN - P4EST_QUADRANT_LEN(l), l)

\* complete_region was called with the two corners of level l, both
\* included.
CornerCall(l) ==
    /\ call.name = "complete_region"
    /\ call.q1 = FirstCorner(l) /\ call.q2 = LastCorner(l)
    /\ call.include_q1 /\ call.include_q2

InsideSlots(q) ==
    {s \in {Insulation(q, which) :
              which \in (0 .. P4EST_INSUL - 1) \ {P4EST_INSUL \div 2}} :
       p4est_quadrant_is_inside_root(s)}

\* The local leaves of the tree of q inside a slot of q and more than
\* depth levels below it, tagged with the tree of q.
FinerLeaves(q, depth) ==
    {SetUd(tq, q.ud.which_tree) :
       tq \in {t \in Range(p4est[1].trees[q.ud.which_tree].quadrants) :
                 /\ t.level >= q.level + depth
                 /\ \E s \in InsideSlots(q) : p4est_quadrant_is_ancestor(s, t)}}

\* A legacy call for one quadrant inside the root has returned.
LegacyInRoot ==
    /\ call.name = "compute_overlap"
    /\ Len(call.in) = 1
    /\ p4est_quadrant_is_inside_root(call.in[1])

\* C14 as stated: the legacy compute_overlap for a quadrant q inside the
\* root emits every local leaf that lies in a slot of q inside the root and
\* is finer than the slot, tagged with the tree of q, and nothing else.
C14_LegacyOverlap ==
    LegacyInRoot => Range(call.out) = FinerLeaves(call.in[1], 1)

\* C14, amended: the legacy compute_overlap for a quadrant q inside the
\* root emits, once each, the local leaves that lie in a slot of q inside
\* the root and are more than one level finer than the slot, tagged with
\* the tree of q, and nothing else.
C14_LegacyOverlapAmended ==
    LegacyInRoot =>
       /\ Range(call.out) = FinerLeaves(call.in[1], 2)
       /\ Len(call.out) = Cardinality(FinerLeaves(call.in[1], 2))

\* A legacy call for a quadrant inside the root has emitted some leaves and
\* has left out a leaf one level finer than the slot it lies in.
C14_Witness ==
    /\ LegacyInRoot
    /\ Len(call.out) >= 2
    /\ FinerLeaves(call.in[1], 1) # FinerLeaves(call.in[1], 2)

\* A call of the new mode has returned.
NewCall == call.name = "compute_overlap_new"

\* The seed u of the input quadrant q in the frames of the neighbour trees
\* that the connectivity lists for the face or corner that q lies across;
\* for q inside the root, u in the tree of q.
SeedFrames(u, q) ==
    LET ct == OverlapContact(OverlapConn, q)
    IN IF ~ ct.inter_tree THEN <<[ntree |-> q.ud.which_tree, q |-> u]>>
       ELSE IF ct.contact_face_only
       THEN <<[ntree |-> ct.ntree,
               q |-> p4est_quadrant_transform_face(u, ct.ftransform)]>>
       ELSE [i \in DOMAIN ct.cta |->
               [ntree |-> ct.cta[i].ntree,
                q |-> p4est_quadrant_transform_corner(
                         u, ct.cta[i].ncorner, TRUE)]]

\* The seeds of the tests that asked for a split, one for every listed
\* neighbour, or only for the neighbours that are the tree the input
\* quadrant came from: <<test, seed, neighbour>>.
SeedTargets(every) ==
    {tr \in UNION {UNION {{<<t, jz, i>> :
                             i \in DOMAIN SeedFrames(
                                     call.tests[t].seeds[jz],
                                     call.in[call.tests[t].iz + 1])} :
                          jz \in DOMAIN call.tests[t].seeds} :
                   t \in DOMAIN call.tests} :
       LET q == call.in[call.tests[tr[1]].iz + 1]
           fr == SeedFrames(call.tests[tr[1]].seeds[tr[2]], q)[tr[3]]
       IN every \/ p4est_quadrant_is_inside_root(q)
             \/ fr.ntree = q.ud.from_tree}

\* The entry of out for a target: the first sibling of the seed in the
\* frame of the neighbour, tagged with the neighbour.
SeedEntry(tr) ==
    LET fr == SeedFrames(call.tests[tr[1]].seeds[tr[2]],
                         call.in[call.tests[tr[1]].iz + 1])[tr[3]]
    IN SetUd(p4est_quadrant_sibling(fr.q, 0), fr.ntree)

\* out holds one entry for each of the targets and nothing else.
EmitsOnce(targets) ==
    \A e \in Range(call.out) \cup {SeedEntry(tr) : tr \in targets} :
       Cardinality({i \in DOMAIN call.out : call.out[i] = e})
          = Cardinality({tr \in targets : SeedEntry(tr) = e})

\* C15 as stated: in the new mode every seed of a balance test that asks
\* for a split is emitted at sibling zero once into the frame of every
\* neighbour tree listed for the face or corner that the input quadrant
\* lies across, and once with the own tree for a quadrant inside the root.
C15_SeedsToEveryNeighbour ==
    NewCall => EmitsOnce(SeedTargets(TRUE))

\* C15, amended: in the new mode every seed of a balance test that asks
\* for a split is emitted at sibling zero once for every listed neighbour
\* across the face or corner that is the tree the input quadrant came from
\* (its from_tree), and once with the own tree for a quadrant inside the
\* root.
C15_SeedsToFromTree ==
    NewCall => EmitsOnce(SeedTargets(FALSE))

\* A call of the new mode for a quadrant across a corner with two listed
\* neighbours has emitted seeds.
C15_Witness ==
    /\ NewCall
    /\ call.out # <<>>
    /\ \E t \in DOMAIN call.tests :
          Len(SeedFrames(call.tests[t].seeds[1],
                         call.in[call.tests[t].iz + 1])) > 1

\* Calls of the new mode for a quadrant across a face and for a quadrant
\* inside the root emit seeds as well.
C15_FaceSeeds ==
    /\ NewCall
    /\ call.out # <<>>
    /\ OverlapContact(OverlapConn, call.in[1]).contact_face_only

C15_InRootSeeds ==
    /\ NewCall
    /\ call.out # <<>>
    /\ p4est_quadrant_is_inside_root(call.in[1])

\* The processes whose local checks fail.
FailingRanks == {r \in Ranks : ~ p4est_is_valid(p4est[r])}

\* C16: p4est_is_valid returns the same on every process: false when the
\* local checks fail on at least one process, true when they pass on all.
C16_Unanimous ==
    call.name = "is_valid" =>
       \A m \in call.ret : m.ret = (FailingRanks = {})

\* All processes have returned false; the checks fail on one process and
\* pass on the others.
C16_Witness ==
    /\ call.name = "is_valid"
    /\ call.n = NumProcs
    /\ Cardinality(FailingRanks) = 1
    /\ \A m \in call.ret : ~ m.ret

\* All processes have returned true.
C16_AllValid ==
    /\ call.name = "is_valid"
    /\ call.n = NumProcs
    /\ \A m \in call.ret : m.ret

\* Some counter of some tree is not the number of its leaves on the level.
WrongLevelCount(pe) ==
    \E t \in 0 .. pe.num_trees - 1, l \in 0 .. P4EST_QMAXLEVEL :
       pe.trees[t].quadrants_per_level[l] # LeavesAt(pe.trees[t].quadrants, l)

\* The counters of some tree do not add up to the number of its leaves.
WrongCountSum(pe) ==
    \E t \in 0 .. pe.num_trees - 1 :
       CountedQuadrants(pe.trees[t].quadrants_per_level)
          # Len(pe.trees[t].quadrants)

\* The offset of some tree is not the number of leaves in the trees before.
WrongOffset(pe) ==
    LET before[t \in 0 .. pe.num_trees] ==
           IF t = 0 THEN 0
           ELSE before[t - 1] + Len(pe.trees[t - 1].quadrants)
    IN \E t \in 0 .. pe.num_trees - 1 :
          pe.trees[t].quadrants_offset # before[t]

\* maxlevel of some tree is not the highest level of its leaves.
WrongMaxlevel(pe) ==
    \E t \in 0 .. pe.num_trees - 1 :
       \/ \E l \in 0 .. P4EST_QMAXLEVEL :
             l > pe.trees[t].maxlevel /\ LeavesAt(pe.trees[t].quadrants, l) > 0
       \/ /\ pe.trees[t].maxlevel > 0
          /\ LeavesAt(pe.trees[t].quadrants, pe.trees[t].maxlevel) = 0

\* maxlevel of some tree is not the highest level with a positive counter.
WrongCountedMaxlevel(pe) ==
    \E t \in 0 .. pe.num_trees - 1 :
       pe.trees[t].maxlevel # MaxCountedLevel(pe.trees[t].quadrants_per_level)

\* Some leaf of some tree is not followed by its successor.
IncompleteTree(pe) ==
    \E t \in 0 .. pe.num_trees - 1 :
       \E i \in 1 .. Len(pe.trees[t].quadrants) - 1 :
          ~ p4est_quadrant_is_next(pe.trees[t].quadrants[i],
                                   pe.trees[t].quadrants[i + 1])

\* The process has no leaves and its range of trees is not (-1, -2).
EmptyRangeNotEncoded(pe) ==
    /\ \A t \in 0 .. pe.num_trees - 1 : pe.trees[t].quadrants = <<>>
    /\ <<pe.first_local_tree, pe.last_local_tree>> # <<-1, -2>>

\* The range of trees has a negative end and is not (-1, -2).
NegativeRangeNotEncoded(pe) ==
    /\ pe.first_local_tree < 0 \/ pe.last_local_tree < 0
    /\ <<pe.first_local_tree, pe.last_local_tree>> # <<-1, -2>>

\* C17 as stated: p4est_is_valid returns false whenever on some process a
\* counter of a level is not the number of leaves of the tree on that
\* level, an offset or a maxlevel is wrong, a tree is incomplete, or an
\* empty range of trees is not (-1, -2).
C17_DetectsWrongCounts ==
    call.name = "is_valid" =>
       \A m \in call.ret :
          (\E r \in Ranks :
              \/ WrongLevelCount(p4est[r])
              \/ WrongOffset(p4est[r])
              \/ WrongMaxlevel(p4est[r])
              \/ IncompleteTree(p4est[r])
              \/ EmptyRangeNotEncoded(p4est[r]))
             => ~ m.ret

\* C17, amended: p4est_is_valid returns false whenever on some process the
\* counters of a tree do not add up to the number of its leaves, maxlevel
\* is not the highest level with a positive counter, an offset is wrong, a
\* tree is incomplete, or a range of trees with a negative end is not
\* (-1, -2).
C17_DetectsWrongSums ==
    call.name = "is_valid" =>
       \A m \in call.ret :
          (\E r \in Ranks :
              \/ WrongCountSum(p4est[r])
              \/ WrongCountedMaxlevel(p4est[r])
              \/ WrongOffset(p4est[r])
              \/ IncompleteTree(p4est[r])
              \/ NegativeRangeNotEncoded(p4est[r]))
             => ~ m.ret

\* A process has returned false for counters that do not add up.
C17_Witness ==
    /\ call.name = "is_valid"
    /\ \E m \in call.ret : ~ m.ret
    /\ \E r \in Ranks : WrongCountSum(p4est[r])

\* A process has returned true although a counter is wrong.
C17_Undetected ==
    /\ call.name = "is_valid"
    /\ \E m \in call.ret : m.ret
    /\ \E r \in Ranks : WrongLevelCount(p4est[r])

\* A process has returned true although an empty range is not (-1, -2).
C17_UndetectedRange ==
    /\ call.name = "is_valid"
    /\ \E m \in call.ret : m.ret
    /\ \E r \in Ranks : EmptyRangeNotEncoded(p4est[r])

\* A call of one of the operations that create leaves has returned.
CreatingCall ==
    call.name \in {"complete_region", "complete_subtree",
                   "balance_subtree", "balance_border"}

\* The argument of init_fn for the leaf q of the tree of the call.
InitArgs(q) == <<call.which_tree, q.x, q.y, q.level>>

\* The leaves of the tree of the call that were not in it before.
NewLeaves ==
    {Bare(q) : q \in Range(Leaves(call.rank, call.which_tree))}
       \ {Bare(q) : q \in Range(call.before.quadrants)}

\* C18: complete_region, complete_subtree, balance_subtree and
\* balance_border call init_fn once, with the tree and the quadrant, for
\* every leaf that the call has put into the tree, and not for a leaf that
\* was in the tree before.
C18_InitOncePerNewLeaf ==
    CreatingCall =>
       /\ \A q \in NewLeaves :
             Cardinality({i \in DOMAIN call.inits :
                            call.inits[i] = InitArgs(q)}) = 1
       /\ \A q \in Range(call.before.quadrants) :
             \A i \in DOMAIN call.inits : call.inits[i] # InitArgs(q)

\* A call on a tree with leaves has kept a leaf and created others.
C18_Witness ==
    /\ CreatingCall
    /\ call.name # "complete_region"
    /\ NewLeaves # {}
    /\ \E q \in Range(call.before.quadrants) :
          Bare(q) \in {Bare(n) : n \in Range(Leaves(call.rank,
                                                    call.which_tree))}

\* The global indices of the leaves of process r before the call, and of
\* those it is to hold after it.
OldRange(r) ==
    call.before[r].global_first_quadrant[r]
       .. call.before[r].global_first_quadrant[r + 1] - 1

NewRange(r) ==
    LET first[i \in 0 .. NumProcs] ==
           IF i = 0 THEN 0
           ELSE first[i - 1] + call.new_num_quadrants_in_proc[i - 1]
    IN first[r] .. first[r + 1] - 1

\* The messages sent from src to dst and the receives dst has posted for
\* src in this call.
SentTo(src, dst) == {m \in call.sent : m.src = src /\ m.dst = dst}

PostedFor(src, dst) == {m \in call.recv : m.src = src /\ m.dst = dst}

\* The process has posted its receives and sends of this call.
HasPosted(r) == InPartition /\ pc[r] # "enter"

\* C19: in a call of partition_given there is at most one message for an
\* ordered pair of processes and none from a process to itself; src sends
\* to dst iff dst posts a receive from src iff the old range of src and the
\* new range of dst share a leaf; the number of leaves and of bytes of the
\* send are those of the receive.
C19_MessagesMatch ==
    InPartition =>
       /\ \A m \in call.sent \cup call.recv : m.src # m.dst
       /\ \A m \in net :
             m.tag = "P4EST_COMM_PARTITION_GIVEN" =>
                Cardinality({o \in net : /\ o.tag = m.tag
                                         /\ o.src = m.src
                                         /\ o.dst = m.dst}) = 1
       /\ \A src \in Ranks : \A dst \in Ranks \ {src} :
             LET shared == OldRange(src) \cap NewRange(dst)
             IN /\ Cardinality(SentTo(src, dst)) <= 1
                /\ Cardinality(PostedFor(src, dst)) <= 1
                /\ HasPosted(src) => (SentTo(src, dst) # {} <=> shared # {})
                /\ HasPosted(dst) => (PostedFor(src, dst) # {} <=> shared # {})
                /\ \A m \in SentTo(src, dst), o \in PostedFor(src, dst) :
                      /\ m.num = o.num /\ m.size = o.size
                      /\ m.num = Cardinality(shared)

\* Two processes have sent to the same process, which has posted the two
\* receives, and one process has sent to two.
C19_Witness ==
    /\ InPartition
    /\ \A r \in Ranks : HasPosted(r)
    /\ \E dst \in Ranks :
          Cardinality({m \in call.sent : m.dst = dst}) = 2
             /\ Cardinality({m \in call.recv : m.dst = dst}) = 2
    /\ \E m \in call.sent : m.num >= 2

\* The payloads attached to the leaf q of tree t in the forest f of all
\* processes.
PayloadsOfLeaf(f, t, q) ==
    {f[r].user_data_pool[f[r].trees[t].quadrants[i].ud] :
       <<r, i>> \in {ri \in Ranks \X (1 .. MaxLeaves + 1) :
                       /\ ri[2] <= Len(f[ri[1]].trees[t].quadrants)
                       /\ Bare(f[ri[1]].trees[t].quadrants[ri[2]]) = q}}

\* The leaf i of tree t of process r was, before the call, the leaf j of
\* the tree on process o.
WasAt(r, t, i, o, j) ==
    /\ j <= Len(call.before[o].trees[t].quadrants)
    /\ Bare(call.before[o].trees[t].quadrants[j]) = Bare(Leaves(r, t)[i])

\* C20: after partition_given every leaf of every process has the payload
\* bytes that were attached to it before the call.
C20_PayloadsTravel ==
    \A r \in Ranks :
       Returned(r) =>
          \A t \in 0 .. NumTrees - 1 : \A i \in DOMAIN Leaves(r, t) :
             {p4est[r].user_data_pool[Leaves(r, t)[i].ud]}
                = PayloadsOfLeaf(call.before, t, Bare(Leaves(r, t)[i]))

\* A process has returned with a leaf that kept its place, a leaf that it
\* had at another index of the tree, and a leaf that came from another
\* process.
C20_Witness ==
    \E r \in Ranks :
       /\ Returned(r)
       /\ \E t \in 0 .. NumTrees - 1 : \E i \in DOMAIN Leaves(r, t) :
             WasAt(r, t, i, r, i)
       /\ \E t \in 0 .. NumTrees - 1 : \E i \in DOMAIN Leaves(r, t) :
             \E j \in (1 .. MaxLeaves) \ {i} : WasAt(r, t, i, r, j)
       /\ \E t \in 0 .. NumTrees - 1 : \E i \in DOMAIN Leaves(r, t) :
             \E o \in Ranks \ {r} : \E j \in 1 .. MaxLeaves :
                WasAt(r, t, i, o, j)

\* The payload handles of the leaves of a forest of one process, and the
\* number of its leaves.
LeafHandles(pe) ==
    UNION {{pe.trees[t].quadrants[i].ud : i \in DOMAIN pe.trees[t].quadrants} :
           t \in 0 .. pe.num_trees - 1}

NumLeaves(pe) ==
    LET sum[t \in 0 .. pe.num_trees] ==
           IF t = 0 THEN 0 ELSE sum[t - 1] + Len(pe.trees[t - 1].quadrants)
    IN sum[pe.num_trees]

\* No handle is in the sequence twice.
FreedOnce(freed) ==
    \A i \in DOMAIN freed, j \in DOMAIN freed : freed[i] = freed[j] => i = j

\* The pool of the process holds one live payload for each of its leaves.
PoolMatchesLeaves(pe) ==
    /\ Cardinality(DOMAIN pe.user_data_pool) = NumLeaves(pe)
    /\ LeafHandles(pe) = DOMAIN pe.user_data_pool

\* A call of an operation on one tree has returned.
TreeOpReturned ==
    /\ call.n > 0
    /\ call.name \in {"complete_region", "complete_subtree",
                      "balance_subtree", "balance_border",
                      "linearize_tree", "remove_nonowned"}

\* C21: after each of complete_region, complete_subtree, balance_subtree,
\* balance_border, linearize_tree, remove_nonowned and partition_given the
\* pool of a process holds as many live payloads as the process has leaves,
\* every leaf has a live payload of its own, and the payloads of the leaves
\* that are gone, and only these, were freed, each once; a leaf that stays
\* keeps its payload handle.
C21_PayloadOwnership ==
    /\ TreeOpReturned =>
          /\ \A r \in Ranks : PoolMatchesLeaves(p4est[r])
          /\ FreedOnce(call.freed)
          /\ \A q \in Range(call.before.quadrants) :
                IF \E n \in Range(Leaves(call.rank, call.which_tree)) :
                      Bare(n) = Bare(q)
                THEN q \in Range(Leaves(call.rank, call.which_tree))
                ELSE q.ud \in Range(call.freed)
    /\ \A r \in Ranks :
          Returned(r) =>
             /\ PoolMatchesLeaves(p4est[r])
             /\ FreedOnce(call.freed[r])
             /\ \A t \in 0 .. NumTrees - 1 :
                   \A q \in Range(call.before[r].trees[t].quadrants) :
                      IF \E n \in Range(Leaves(r, t)) : Bare(n) = Bare(q)
                      THEN q \in Range(Leaves(r, t))
                      ELSE q.ud \in Range(call.freed[r])

\* A call on a tree has freed the payload of a leaf that is gone, kept
\* another leaf and created a third.
C21_Witness ==
    /\ TreeOpReturned
    /\ \E q \in Range(call.before.quadrants) :
          /\ q \notin Range(Leaves(call.rank, call.which_tree))
          /\ q.ud \in Range(call.freed)
    /\ \E q \in Range(call.before.quadrants) :
          q \in Range(Leaves(call.rank, call.which_tree))
    /\ NewLeaves # {}

\* A process has returned from partition_given with leaves that it kept
\* and has freed the payloads of leaves that went away.
C21_PartitionWitness ==
    \E r \in Ranks :
       /\ Returned(r)
       /\ call.freed[r] # <<>>
       /\ \E t \in 0 .. NumTrees - 1 :
             Range(call.before[r].trees[t].quadrants)
                \cap Range(Leaves(r, t)) # {}

C23_BorderDeduplicated ==
    (call.name = "balance_border" /\ Len(call.qarray) > 0) =>
       LET unique == BorderUnique(call.qarray)
       IN /\ Range(unique) = Range(call.qarray)
          /\ \A i \in 1 .. Len(unique) - 1 :
                p4est_quadrant_compare(unique[i], unique[i + 1]) < 0

\* The seed q of the border is a leaf of s or is refined in s.
SeedCovered(s, q) ==
    \E i \in DOMAIN s :
       \/ p4est_quadrant_is_equal(s[i], q)
       \/ p4est_quadrant_is_ancestor(q, s[i])

\* The leaves of after inside the leaf p of the tree before the call hold
\* every seed of qarray below p and are balanced among themselves.
BalancedInside(after, p, qarray, btype) ==
    /\ \A k \in DOMAIN qarray :
          p4est_quadrant_is_ancestor(p, qarray[k]) =>
             SeedCovered(after, qarray[k])
    /\ Balanced21(Within(after, p), btype = P4EST_CONNECT_FULL)

\* The containers that the call has processed: the leaves of the tree
\* before the call, in the border with seeds below them, that the call has
\* replaced.
Processed(before, after, qarray) ==
    {i \in Containers(before, qarray) : Within(after, before[i]) # <<before[i]>>}

\* C24: after balance_border, for every processed container (a leaf that
\* is in the border with seeds below it), every seed of the border below
\* the container is a leaf or refined, and two leaves inside the container
\* that touch across a face, or a corner for the full balance, differ by
\* at most one level.
C24_BalancedInContainers ==
    call.name = "balance_border" =>
       LET before == call.before.trees[0].quadrants
           after == p4est[0].trees[0].quadrants
       IN \A i \in Processed(before, after, call.qarray) :
             BalancedInside(after, before[i], call.qarray, call.btype)

\* The same for a border that holds no quadrant twice.
C24_WithoutRepetition ==
    (call.name = "balance_border"
       /\ \A i \in DOMAIN call.qarray : \A j \in DOMAIN call.qarray :
             i # j => call.qarray[i] # call.qarray[j])
       => C24_BalancedInContainers

\* The leaves of s are the 2^D children of par.
HoldsFamily(s, par) ==
    \A k \in 1 .. P4EST_CHILDREN :
       \E i \in DOMAIN s :
          p4est_quadrant_is_equal(s[i], p4est_quadrant_children(par)[k])

\* par is an ancestor of an end of the region.
AboveAnEnd(par) ==
    \/ p4est_quadrant_is_ancestor(par, call.q1)
    \/ p4est_quadrant_is_ancestor(par, call.q2)

\* The leaves that complete_region has put strictly between its ends.
Emitted ==
    {q \in Range(Leaves(0, 0)) :
       /\ p4est_quadrant_compare(call.q1, q) < 0
       /\ p4est_quadrant_compare(q, call.q2) < 0}

\* C25: in the output of complete_region the 2^D children of a quadrant
\* are all leaves only if the quadrant is an ancestor of a or of b, and
\* every leaf strictly between a and b is a child of the nearest common
\* ancestor of a and b or of an ancestor of a or of b.
C25_CompletionMinimal ==
    call.name = "complete_region" =>
       /\ \A q \in Range(Leaves(0, 0)) :
             (q.level > 0 /\ HoldsFamily(Leaves(0, 0), p4est_quadrant_parent(q)))
                => AboveAnEnd(p4est_quadrant_parent(q))
       /\ \A q \in Emitted :
             /\ q.level > 0
             /\ \/ p4est_quadrant_is_equal(
                      p4est_quadrant_parent(q),
                      p4est_nearest_common_ancestor(call.q1, call.q2))
                \/ AboveAnEnd(p4est_quadrant_parent(q))

\* complete_region has returned a family, a with its siblings, and leaves
\* between a and b that are children of an ancestor of b only.
C25_Witness ==
    /\ call.name = "complete_region"
    /\ call.include_q1
    /\ call.q1.level > 1
    /\ HoldsFamily(Leaves(0, 0), p4est_quadrant_parent(call.q1))
    /\ \E q \in Emitted :
          /\ ~ p4est_quadrant_is_ancestor(p4est_quadrant_parent(q), call.q1)
          /\ p4est_quadrant_parent(q).level
                > p4est_nearest_common_ancestor(call.q1, call.q2).level

\* s is t or t with entries appended.
Extends(s, t) == Len(s) >= Len(t) /\ SubSeq(s, 1, Len(t)) = t

\* The storage b holds no candidate twice, none that the input list
\* holds, each in the list and in the hash of its level.
NoRepeatedCandidate(b, inlist) ==
    /\ \A lev \in DOMAIN b.outlist :
          /\ \A i \in DOMAIN b.outlist[lev] :
                /\ b.outlist[lev][i].level = lev
                /\ b.outlist[lev][i] \in b.hash
                /\ \A j \in DOMAIN b.outlist[lev] :
                      i # j => ~ p4est_quadrant_is_equal(b.outlist[lev][i],
                                                         b.outlist[lev][j])
                /\ \A k \in DOMAIN inlist :
                      ~ p4est_quadrant_is_equal(b.outlist[lev][i], inlist[k])
    /\ b.hash = UNION {Range(b.outlist[lev]) : lev \in DOMAIN b.outlist}

\* A turn of the loop at level l inserts candidates of the levels l and
\* l - 1 only, behind the ones that are there.
LevelStep(l, b, b1) ==
    \A lev \in DOMAIN b.outlist :
       /\ Extends(b1.outlist[lev], b.outlist[lev])
       /\ lev \notin {l, l - 1} => b1.outlist[lev] = b.outlist[lev]

\* C26: while the walk of complete_or_balance is at level l, the
\* candidates it inserts have level l or l - 1, none of them is in the
\* hash of its level or in the input list already, and the lists and
\* hashes of the levels above the one the walk is at never change again,
\* up to the merge.
C26_BottomUpSweep ==
    [][(loc.phase = "walk" /\ loc'.phase # "idle") =>
          /\ loc'.w = loc.w
          /\ LevelStep(loc.l, loc.b, loc'.b)
          /\ NoRepeatedCandidate(loc'.b, loc.w.quadrants)
          /\ loc'.l \in {loc.l, loc.l - 1}]_vars

\* The walk has done two levels and has inserted siblings and parents.
C26_Witness ==
    /\ loc.phase = "walk"
    /\ loc.l <= loc.w.maxlevel - 2
    /\ \E lev \in DOMAIN loc.b.outlist :
          /\ \E i \in DOMAIN loc.b.outlist[lev] :
                loc.b.outlist[lev][i].ud = parent_key
          /\ \E i \in DOMAIN loc.b.outlist[lev] :
                loc.b.outlist[lev][i].ud = key
    /\ loc.b.outlist[loc.w.maxlevel] # <<>>

\* The process that held the leaf q of the tree t before the call.
OldOwner(t, q) ==
    CHOOSE r0 \in Ranks :
       \E i \in DOMAIN call.before[r0].trees[t].quadrants :
          Bare(call.before[r0].trees[t].quadrants[i]) = Bare(q)

\* The number of leaves of the process r in the trees before t.
LeavesBelow(r, t) ==
    LET run[k \in 0 .. t] ==
           IF k = 0 THEN 0 ELSE run[k - 1] + Len(Leaves(r, k - 1))
    IN run[t]

\* The tree t of the process r after the call is consistent.
TreeConsistent(r, t) ==
    LET tree == p4est[r].trees[t]
        s == tree.quadrants
    IN /\ tree.quadrants_offset = LeavesBelow(r, t)
       /\ IF t >= p4est[r].first_local_tree /\ t <= p4est[r].last_local_tree
          THEN /\ s # <<>>
               /\ tree.first_desc
                     = p4est_quadrant_first_descendant(Bare(s[1]),
                                                       P4EST_QMAXLEVEL)
               /\ tree.last_desc
                     = p4est_quadrant_last_descendant(Bare(s[Len(s)]),
                                                      P4EST_QMAXLEVEL)
               /\ \A i \in 1 .. Len(s) - 1 :
                     /\ p4est_quadrant_compare(s[i], s[i + 1]) < 0
                     /\ OldOwner(t, s[i]) <= OldOwner(t, s[i + 1])
          ELSE /\ s = <<>>
               /\ tree.first_desc = P4EST_QUADRANT_INIT
               /\ tree.last_desc = P4EST_QUADRANT_INIT

\* C27: after partition_given every tree of a process is consistent: its
\* quadrants_offset is the number of leaves in the local trees before it;
\* a tree of the local range has the deepest first and last descendants
\* of its first and last leaf and its leaves strictly sorted, those from
\* lower processes before the kept ones before those from higher
\* processes; a tree outside the range has no leaves and reset
\* descendants.
C27_TreesConsistent ==
    \A r \in Ranks :
       Returned(r) => \A t \in 0 .. NumTrees - 1 : TreeConsistent(r, t)

\* After the return a tree holds leaves from a lower process, kept leaves
\* and leaves from a higher process, and a tree of a process has lost all
\* its leaves.
C27_Witness ==
    /\ AllReturned
    /\ \E r \in Ranks \ {0, NumProcs - 1} :
       \E t \in 0 .. NumTrees - 1 :
          /\ \E q \in Range(Leaves(r, t)) : OldOwner(t, q) < r
          /\ \E q \in Range(Leaves(r, t)) : OldOwner(t, q) = r
          /\ \E q \in Range(Leaves(r, t)) : OldOwner(t, q) > r
    /\ \E r \in Ranks :
       \E t \in 0 .. NumTrees - 1 :
          /\ Leaves(r, t) = <<>>
          /\ call.before[r].trees[t].quadrants # <<>>

\* The process r is between its two blocking points or before the first.
Running(r) == pc[r] # "idle"

\* A message of src for dst is in flight.
InFlight(src, dst) ==
    \E m \in net :
       m.tag = "P4EST_COMM_PARTITION_GIVEN" /\ m.src = src /\ m.dst = dst

\* The counts of the plan of a process are not negative.
PlanCountsNotNegative ==
    \A r \in Ranks :
       pc[r] \in {"waitall", "allgather"} =>
          \A p \in Ranks :
             /\ loc[r].num_recv_from[p] >= 0
             /\ loc[r].num_send_to[p] >= 0

\* C28: partition_given returns on every process, whatever the old and
\* the new counts are: every message that is sent is received, no process
\* stays in a wait, and no entry of num_recv_from and num_send_to is
\* negative.
C28_PartitionTerminates ==
    /\ [] PlanCountsNotNegative
    /\ <>[] (/\ AllReturned
             /\ \A r \in Ranks : ~ Running(r)
             /\ \A src \in Ranks : \A dst \in Ranks : ~ InFlight(src, dst))

\* Every process has returned from a call in which a process that had no
\* leaves and a process that gets none took part, and messages were sent.
C28_Witness ==
    /\ AllReturned
    /\ \E r \in Ranks : OldCount[r] = 0
    /\ \E r \in Ranks : NewCount[r] = 0
    /\ Cardinality(call.sent) >= 2
    /\ \A r \in Ranks : ~ Running(r)

\* The number of quadrants of the range that the process r holds.
HeldOfRange(r) ==
    LET lo == SC_MAX(loc.min_quadrant_id, loc.partition[r])
        hi == SC_MIN(loc.max_quadrant_id, loc.partition[r + 1] - 1)
    IN IF hi >= lo THEN hi - lo + 1 ELSE 0

\* The lowest of the processes that hold the most quadrants of the range.
FamilyOwner ==
    CHOOSE o \in 0 .. MaxRanks - 1 :
       /\ \A r \in 0 .. MaxRanks - 1 : HeldOfRange(r) <= HeldOfRange(o)
       /\ \A r \in 0 .. o - 1 : HeldOfRange(r) < HeldOfRange(o)

\* The partition with the corrections of the processes that were called.
Corrected ==
    [r \in 0 .. MaxRanks |->
       IF r < MaxRanks /\ call.ret[r].called
       THEN loc.partition[r] - call.ret[r].ret
       ELSE loc.partition[r]]

IsFamilyRange ==
    loc.max_quadrant_id - loc.min_quadrant_id + 1 = P4EST_CHILDREN

\* Every process that splits the range has been called.
AllCorrected ==
    \A r \in 0 .. MaxRanks - 1 : SplitsRange(r) => call.ret[r].called

\* C29: p4est_partition_correction returns 0 unless the range holds 2^D
\* quadrants; for a range of 2^D quadrants and a process whose first
\* quadrant is inside it, the corrected first quadrant is the first of the
\* range or the one behind its last, every such process finds the same
\* owner, the lowest of the processes with the most quadrants of the
\* range, the corrected partition puts the whole range on the owner, and
\* the two searches end without reading partition outside 0 .. P.
C29_PartitionCorrection ==
    /\ \A r \in 0 .. MaxRanks - 1 :
          call.ret[r].called =>
             /\ ~ call.ret[r].undefined
             /\ call.ret[r].searched = IsFamilyRange
             /\ ~ IsFamilyRange => call.ret[r].ret = 0
             /\ IsFamilyRange =>
                   /\ Corrected[r] \in {loc.min_quadrant_id,
                                        loc.max_quadrant_id + 1}
                   /\ call.ret[r].rank_with_max_quads = FamilyOwner
    /\ (IsFamilyRange /\ AllCorrected) =>
          /\ Corrected[FamilyOwner] <= loc.min_quadrant_id
          /\ Corrected[FamilyOwner + 1] >= loc.max_quadrant_id + 1
          /\ \A r \in 0 .. MaxRanks - 1 : Corrected[r] <= Corrected[r + 1]

\* Three processes have split a family and found its owner: one of them
\* below the owner, the owner, and one above it.
C29_Witness ==
    /\ IsFamilyRange
    /\ AllCorrected
    /\ call.ret[FamilyOwner].called
    /\ \E r \in 0 .. MaxRanks - 1 :
          call.ret[r].called /\ r < FamilyOwner /\ call.ret[r].ret > 0
    /\ \E r \in 0 .. MaxRanks - 1 :
          call.ret[r].called /\ r > FamilyOwner /\ call.ret[r].ret < 0

\* The leaf array s is linear and complete and tiles the root.
TilesRoot(s) ==
    /\ p4est_tree_is_sorted(s)
    /\ NoAncestorPair(s)
    /\ p4est_tree_is_complete(s)
    /\ CoversRoot(s)

\* complete_subtree or balance_subtree was called on a tree that tiles the
\* root.
RefiningCall ==
    /\ call.name \in {"complete_subtree", "balance_subtree"}
    /\ TilesRoot(call.before.quadrants)

\* C30: complete_subtree and balance_subtree on a linear and complete tree
\* that tiles the root only refine: every leaf after the call is an input
\* leaf or a descendant of one, every input leaf of the maximum level of
\* the tree is still a leaf, and complete_subtree changes nothing.
C30_OnlyRefine ==
    RefiningCall =>
       LET before == call.before.quadrants
           after == Leaves(call.rank, call.which_tree)
       IN /\ \A i \in DOMAIN after :
                \E k \in DOMAIN before :
                   \/ p4est_quadrant_is_equal(before[k], after[i])
                   \/ p4est_quadrant_is_ancestor(before[k], after[i])
          /\ \A k \in DOMAIN before :
                before[k].level = call.before.maxlevel =>
                   before[k] \in Range(after)
          /\ call.name = "complete_subtree" =>
                p4est[call.rank].trees[call.which_tree] = call.before

\* balance_subtree has refined a complete tree with leaves below level 1 and has
\* kept a leaf of the deepest level.
C30_Witness ==
    /\ RefiningCall
    /\ call.name = "balance_subtree"
    /\ call.before.maxlevel > 1
    /\ Len(Leaves(call.rank, call.which_tree)) > Len(call.before.quadrants)
    /\ \E q \in Range(call.before.quadrants) :
          /\ q.level = call.before.maxlevel
          /\ q \in Range(Leaves(call.rank, call.which_tree))

\* complete_subtree was called on a tree that tiles the root and is not
\* balanced.
C30_CompleteWitness ==
    /\ RefiningCall
    /\ call.name = "complete_subtree"
    /\ ~ Balanced21(call.before.quadrants, FALSE)

====
